---------------------------- MODULE Spec2Model ----------------------------
(***************************************************************************)
(* Verification model of the 3SONIC scanner control core.                  *)
(*                                                                         *)
(* The module holds several specifications over one set of variables:      *)
(*   SpecSerial  serial manager: request pump, send_now, reconnect watcher *)
(*               (app/core/serial_manager.py); SerialFair adds fairness    *)
(*   SpecMode    G90/G91 mode discipline of jogs, continuous workers and   *)
(*               rotate (app/main.py, app/core/keyboard_control.py,        *)
(*               app/core/scanner_control.py)                              *)
(*   SpecMove    absolute X/Y/Z targets written by the motion operations   *)
(*               (app/core/scanner_control.py, app/main.py)                *)
(*   SpecRec     distance-triggered acquisition loop of the recorder and   *)
(*               its decision to start the converter                       *)
(*               (app/scripts/record.py)                                   *)
(*   SpecScan    the scanning flag file shared by the server, the recorder *)
(*               and the converter (app/main.py, app/scripts/record.py,    *)
(*               app/scripts/imconv.py)                                    *)
(*   SpecRot     rotate_nozzle_* with the persisted E position and the     *)
(*               answers of the firmware (app/core/scanner_control.py)     *)
(*   SpecJog     the bounded jog queue and its worker (app/main.py)        *)
(*   SpecReg     the registry of continuous-move workers (app/main.py)     *)
(*   SpecUi      the two UI continuous-move workers of SpecMode alone;     *)
(*               UiFair adds fairness                                      *)
(*   SpecMix     the X/Y/Z worker of the UI with its stop request beside an*)
(*               absolute move of a request thread                         *)
(*   SpecPlan    scan plan parsing, persistence and resolution             *)
(*               (app/main.py, app/scripts/record.py)                      *)
(*   SpecShut    the steps of the shutdown (app/main.py)                   *)
(*   SpecSdk     session of the ultrasound SDK and the live frame          *)
(*               generators (app/core/ultrasound_sdk.py)                   *)
(*   SpecIni     go2INIT: homing, lift, centre move and their checks       *)
(*               (app/core/scanner_control.py)                             *)
(*   SpecPath    ScanPath (app/core/scanner_control.py)                    *)
(*   SpecStart   concurrent start_serial calls                             *)
(*               (app/core/serial_manager.py)                              *)
(*   SpecProc    the recorder process from its launch to the first pass of *)
(*               its loop, with the serial manager of that process         *)
(*               (app/scripts/record.py, app/core/serial_manager.py)       *)
(* Each specification leaves the variables of the other parts unchanged.   *)
(***************************************************************************)
EXTENDS Integers, Sequences, FiniteSets, TLC

(***************************************************************************)
(* Bounds of the model.                                                    *)
(***************************************************************************)
MaxHandles == 3      \* serial handles that can be opened in one run
MaxFaults == 1       \* times the device drops off the bus in one run
MaxReqs == 2         \* send_gcode calls in one run
MaxCalls == 1        \* send_now / wait_for_motion_complete calls of the caller thread
MaxModeFaults == 1   \* write errors in one run of the mode model
MaxX == 30           \* largest X position of a scan plan, in units of tol_mm
MaxSweeps == 2       \* sweeps of one flow (multisweep runs two)
MaxRotCalls == 2     \* rotate calls in one run
MaxJobs == 68        \* jog jobs accepted in one run
MaxWorkers == 3      \* continuous-move worker threads created in one run
MaxRotFaults == 1    \* times the link drops in one run of the rotate model
MaxStarters == 2     \* threads calling start_serial
MaxIniFaults == 2    \* connection losses during go2INIT calls
MaxStreams == 2      \* subscribers of the live stream
MaxBackoff == 2      \* passes of one _reconnect_with_backoff loop
MaxChildren == 2     \* processes in _CHILD_PROCS
MaxFileFaults == 1   \* failed writes of the E position file in one run

None == 0
Handles == 1..MaxHandles
Reqs == 1..MaxReqs
NowTag == 0          \* tag of a command written by send_now
Tags == Reqs \cup {NowTag}

VARIABLES
  \* ---- serial manager (serial_manager.py) ----
  serial_port,      \* published handle or None
  hstate,           \* handle -> "unopened" | "open" | "broken" | "closed"
  connected,        \* _connected_event
  deviceUp,         \* the controller is on the bus
  faults,           \* device drops so far
  nextH,            \* next handle id serial.Serial() returns
  command_queue,    \* _command_queue (FIFO of request ids)
  pending,          \* commands written and not yet answered by the firmware
  rx,               \* answers waiting in the input buffer
  pumpPc, pumpCmd, pumpSp, pumpLines,
  rcPc, rcSer,      \* reconnect watcher
  reqPc,            \* send_gcode callers
  cbCount, cbArg,   \* completer invocations per request, and the argument
  snPc, snSp, snRet, snOp, calls, send_now_lock,   \* caller thread of send_now / M400 barrier
  enqOrder, wrote, called, winOpen,   \* histories: enqueue, write, completer order; open read windows
  earlier,          \* the commands written and unanswered when the barrier's M400 was written
  \* ---- mode discipline (main.py, keyboard_control.py, scanner_control.py) ----
  pc,               \* position of each worker thread
  uiLock,           \* main._UI_MODE_LOCK: holder or "free"
  kbLock,           \* scanner_control.UI_MODE_LOCK: holder or "free"
  stopFlag,         \* stop_flag event of each continuous worker
  okSetup,          \* ok_setup of the UI XYZ worker
  urG90ok,          \* the G90 the UI rotate worker sends inside the lock was written
  urElapsed,        \* time.time() - start_time of the UI rotate worker >= max_run
  uiTick,           \* parity of the steps the UI XYZ worker's loop has written
  link,             \* "up": a handle is published and open; "down" otherwise
  mFaults,          \* write errors so far
  wireMode,         \* last positioning-mode command delivered: "G90" | "G91"
  wireLast,         \* kind of the last command delivered
  \* ---- absolute moves (scanner_control.py, main.py); lengths in half millimetres ----
  cfg,              \* Config values an environment variable can override
  moveOp,           \* the operation that ran last
  moveReq,          \* the value it was asked for (move_absolute)
  written,          \* the absolute targets it put on the wire, in order
  \* ---- recorder loop (record.py); lengths in units of tol_mm ----
  recPc,            \* "loop", or why the loop was left
  scan_x0, scan_x1, \* the scan plan
  x_cur,            \* X position of the last poll
  x_last,           \* last saved multiple
  frames_written,
  _STOP,           \* record.py _STOP, set by the SIGTERM / SIGINT handler
  recExited,       \* the recorder passed the imconv decision and cleared the flag
  convSpawned,     \* the recorder started app.scripts.imconv
  recWire,         \* commands the recorder process sent to the firmware
  probeCalls,      \* teardown entry points of the DLL the recorder called
  \* ---- scanning flag (main.py, record.py, imconv.py) ----
  scanning,         \* content of SCANNING_FLAG_FILE: 0 | 1
  flow,             \* "none" | "single" | "multi"
  mainPc,           \* position of the request thread running the flow
  sweep,            \* sweeps started so far
  rec,              \* position of the recorder process of each sweep
  imconv,           \* state of the converter spawned by each recorder
  stopReq,          \* shutdown requested (flag written 0, recorders signalled)
  intrPc,           \* position of a second scan request running beside the flow
  scanplan,         \* the _start_scan whose plan SCANPLAN_FILE holds (0: none)
  trail,            \* what the request thread running the flow has done, in order
  multisweep,       \* content of MULTISWEEP_FLAG_FILE: 0 | 1
  \* ---- E axis rotation (scanner_control.py); angles in quarter micro-units ----
  e_file,           \* content of e_axis_position.txt
  rotPc,            \* position of the jog worker inside rotate_nozzle_*
  rotStep, rotDir,  \* arguments of the running call: step, +1 clockwise / -1 counter
  rotE,             \* local e of the running call
  rotRet,           \* result of the last call: "none" | "ok" | "fail"
  rotPrev,          \* content of the file when the call started
  rotCalls,         \* calls started so far
  rotLink,          \* "up" | "down"
  rotFaults,        \* link drops so far
  fileFaults,       \* failed file writes so far
  fwq,              \* commands on the wire the firmware has not answered yet
  inbuf,            \* answers waiting in the input buffer of the port
  resp,             \* lines the queue worker read in the window of the G0 request
  eWrites,          \* writes of the file made by the running call
  \* ---- jog queue (main.py) ----
  jogq,             \* _JOG_Q: the jobs waiting, each named by its arrival number
  jogArr,           \* jobs accepted so far
  jogReply,         \* answer of the last move_probe request
  lastRotate,       \* _LAST_ROTATE: direction of the last rotate request, or "none"
  rotActive,        \* a continuous rotate worker is in _UI_MOVE_THREADS
  jogPc,            \* position of _jog_worker: "get" | "run" | "done"
  jogCur,           \* the job _jog_worker holds (0: none)
  jogDone,          \* the jobs jog_once was run for, in the order of the runs
  \* ---- registry of continuous-move workers (main.py) ----
  registry,         \* _UI_MOVE_THREADS: key -> worker (0: no entry)
  moveLock,         \* _UI_MOVE_LOCK: holder or "free"
  hPc, hKey, hRet,  \* the request threads inside _start_ui_continuous_move
  workers,          \* the worker threads created: key, state, stop flag
  nextW,            \* worker threads created so far
  lastWriter,       \* the thread that made the last write to the wire (0: none)
  regStopPc,        \* position of the request thread inside _stop_ui_continuous_move
  \* ---- scan plan (main.py, record.py); lengths in half millimetres ----
  planRoute,        \* "scanpath" | "multipath": the route of the request
  reqMode,          \* the mode argument of the request
  env_mode,         \* SCAN_MODE in the recorder's environment
  planPc,           \* "idle" | "persisted" | "launched" | "resolved" | "refused"
  reqStart, reqEnd, \* start / end of the running request
  reqGiven,         \* which of the two the request carries
  plan_x0, plan_x1, \* x0, x1 of SCANPLAN_FILE
  plan_mode,        \* mode of SCANPLAN_FILE
  env_x0, env_x1,   \* SCAN_X0 / SCAN_X1 handed to the recorder process
  res_x0, res_x1,   \* scan_x0, scan_x1 as resolved by the recorder
  \* ---- shutdown (main.py: _graceful_shutdown_async) ----
  shPc,             \* position of the shutdown thread
  shLog,            \* the steps the shutdown thread has done, in order
  child,            \* _CHILD_PROCS: "none" | "alive" | "exited" | "terminating" | "dead"
  flagFile,         \* SCANNING_FLAG_FILE as the shutdown sees it: 0 | 1
  shSerial,         \* "open" | "closed": the handle of the server process
  probe,            \* "live" | "closed": the ultrasound session
  contWorkers,      \* continuous move workers running (registry keys and "kbd")
  signalled,        \* the workers that have been told to stop
  \* ---- ultrasound session and live stream (ultrasound_sdk.py) ----
  vendor,           \* "ok" | "down": whether the calls into the vendor DLL succeed
  sdkInit,          \* _UltrasoundDLL._initialized
  dllLoaded,        \* _UltrasoundDLL._dll is not None
  genPc,            \* position of each generate_image generator
  lastFrame,        \* what each generator yielded last: "none" | "real" | "placeholder"
  vendorErr,        \* a vendor call of the generator's last step failed
  backoffTry,       \* attempts made in the running _reconnect_with_backoff
  \* ---- go2INIT (scanner_control.py) ----
  iniPc,            \* position of the thread inside go2INIT
  iniLeg,           \* the move in progress: 1 (X0 Y0 Z10) | 2 (centre)
  iniLink,          \* "up" | "down": the serial connection
  iniFaults,        \* connection losses so far
  iniWire,          \* the commands go2INIT has written, in order
  fwMode,           \* positioning mode of the firmware: "G90" | "G91"
  homed,            \* a homing pattern has succeeded
  iniRet,           \* "none" | "ok" | "fail": the boolean go2INIT returned
  iniState,         \* the state go2INIT ended in
  \* ---- ScanPath call (scanner_control.py); lengths in half millimetres ----
  spPc,             \* "idle" | "first" | "second" | "ret"
  spX0, spX1,       \* x0, x1 before clamping (the arguments, or the defaults)
  spGiven,          \* both arguments were given
  spConn,           \* _ensure_connected() at the call
  spWire,           \* the X targets of the G0 commands written
  spRet,            \* "none" | "ok" | "fail" | "invalid"
  \* ---- start_serial (serial_manager.py) ----
  stPc,             \* position of each thread calling start_serial
  stStage,          \* the worker each caller is dealing with
  stSaw,            \* the caller found a live thread of that name
  alive,            \* live threads per name
  \* ---- the recorder process and its serial manager (record.py) ----
  rpPc,             \* position of the recorder process
  rpPort,           \* serial_manager.serial_port of the recorder process
  rpThreads,        \* serial-manager worker threads alive in the recorder process
  rpPosStr,         \* REC_POSITION_STR of its environment is not empty
  rpPlan,           \* the scan plan in its environment
  rpDevice,         \* the motion controller answers on the bus
  rpAsked,          \* M114 requests the process has made
  rpX               \* what get_position_axis("X") gave the first pass of the loop

serialVars == <<serial_port, hstate, connected, deviceUp, faults, nextH,
                command_queue, pending, rx, pumpPc, pumpCmd, pumpSp, pumpLines,
                rcPc, rcSer, reqPc, cbCount, cbArg,
                snPc, snSp, snRet, snOp, calls, send_now_lock,
                enqOrder, wrote, called, winOpen, earlier>>

devV == <<deviceUp, faults>>
hV == <<hstate, nextH>>
ioV == <<pending, rx>>
pumpV == <<pumpPc, pumpCmd, pumpSp, pumpLines>>
rcV == <<rcPc, rcSer>>
reqV == <<reqPc>>
cbV == <<cbCount, cbArg>>
snV == <<snPc, snSp, snRet, snOp, calls, send_now_lock>>
histV == <<enqOrder, wrote, called, winOpen, earlier>>

modeVars == <<pc, uiLock, kbLock, stopFlag, okSetup, urG90ok, urElapsed, uiTick, link, mFaults,
              wireMode, wireLast>>

moveVars == <<cfg, moveOp, moveReq, written>>

recVars == <<recPc, scan_x0, scan_x1, x_cur, x_last, frames_written, _STOP, recExited,
            convSpawned, recWire, probeCalls>>

scanVars == <<scanning, flow, mainPc, sweep, rec, imconv, stopReq, intrPc, scanplan, trail,
             multisweep>>

rotVars == <<e_file, rotPc, rotStep, rotDir, rotE, rotRet, rotPrev, rotCalls, rotLink, rotFaults, fileFaults, fwq, inbuf, resp, eWrites>>

jogVars == <<jogq, jogArr, jogReply, lastRotate, rotActive, jogPc, jogCur, jogDone>>

regVars == <<registry, moveLock, hPc, hKey, hRet, workers, nextW, lastWriter, regStopPc>>

planVars == <<planRoute, reqMode, env_mode, planPc, reqStart, reqEnd, reqGiven, plan_x0, plan_x1, plan_mode, env_x0, env_x1, res_x0, res_x1>>

shutVars == <<shPc, shLog, child, flagFile, shSerial, probe, contWorkers, signalled>>

sdkVars == <<vendor, sdkInit, dllLoaded, genPc, lastFrame, vendorErr, backoffTry>>

iniVars == <<iniPc, iniLeg, iniLink, iniFaults, iniWire, fwMode, homed, iniRet, iniState>>

pathVars == <<spPc, spX0, spX1, spGiven, spConn, spWire, spRet>>

startVars == <<stPc, stStage, stSaw, alive>>

procVars == <<rpPc, rpPort, rpThreads, rpPosStr, rpPlan, rpDevice, rpAsked, rpX>>

vars == <<serialVars, modeVars, moveVars, recVars, scanVars,
         rotVars,
         jogVars,
         regVars,
         planVars,
         shutVars,
         sdkVars,
         iniVars,
         pathVars,
         startVars,
         procVars>>

\* what the actions of one part leave alone
nonSerialVars == <<modeVars, moveVars, recVars, scanVars, rotVars, jogVars, regVars, planVars, shutVars, sdkVars, iniVars, pathVars, startVars, procVars>>
nonModeVars == <<serialVars, moveVars, recVars, scanVars, rotVars, jogVars, regVars, planVars, shutVars, sdkVars, iniVars, pathVars, startVars, procVars>>
nonMoveVars == <<serialVars, modeVars, recVars, scanVars, rotVars, jogVars, regVars, planVars, shutVars, sdkVars, iniVars, pathVars, startVars, procVars>>
nonRecVars == <<serialVars, modeVars, moveVars, scanVars, rotVars, jogVars, regVars, planVars, shutVars, sdkVars, iniVars, pathVars, startVars, procVars>>
nonScanVars == <<serialVars, modeVars, moveVars, recVars, rotVars, jogVars, regVars, planVars, shutVars, sdkVars, iniVars, pathVars, startVars, procVars>>
nonRotVars == <<serialVars, modeVars, moveVars, recVars, scanVars, jogVars, regVars, planVars, shutVars, sdkVars, iniVars, pathVars, startVars, procVars>>
nonJogVars == <<serialVars, modeVars, moveVars, recVars, scanVars, rotVars, regVars, planVars, shutVars, sdkVars, iniVars, pathVars, startVars, procVars>>
nonRegVars == <<serialVars, modeVars, moveVars, recVars, scanVars, rotVars, jogVars, planVars, shutVars, sdkVars, iniVars, pathVars, startVars, procVars>>
nonPlanVars == <<serialVars, modeVars, moveVars, recVars, scanVars, rotVars, jogVars, regVars, shutVars, sdkVars, iniVars, pathVars, startVars, procVars>>
nonShutVars == <<serialVars, modeVars, moveVars, recVars, scanVars, rotVars, jogVars, regVars, planVars, sdkVars, iniVars, pathVars, startVars, procVars>>
nonSdkVars == <<serialVars, modeVars, moveVars, recVars, scanVars, rotVars, jogVars, regVars, planVars, shutVars, iniVars, pathVars, startVars, procVars>>
nonIniVars == <<serialVars, modeVars, moveVars, recVars, scanVars, rotVars, jogVars, regVars, planVars, shutVars, sdkVars, pathVars, startVars, procVars>>
nonPathVars == <<serialVars, modeVars, moveVars, recVars, scanVars, rotVars, jogVars, regVars, planVars, shutVars, sdkVars, iniVars, startVars, procVars>>
nonStartVars == <<serialVars, modeVars, moveVars, recVars, scanVars, rotVars, jogVars, regVars, planVars, shutVars, sdkVars, iniVars, pathVars, procVars>>
nonProcVars == <<serialVars, modeVars, moveVars, recVars, scanVars, rotVars, jogVars, regVars, planVars, shutVars, sdkVars, iniVars, pathVars, startVars>>

(***************************************************************************)
(* pyserial handle: is_open is true from open until close(), also when the *)
(* device behind it has gone (I/O on it then raises SerialException).      *)
(***************************************************************************)
IsOpen(h) == h # None /\ hstate[h] \in {"open", "broken"}
Usable(h) == h # None /\ hstate[h] = "open"

SerialInit ==
  /\ serial_port = None
  /\ hstate = [h \in Handles |-> "unopened"]
  /\ connected = FALSE
  /\ deviceUp = TRUE
  /\ faults = 0
  /\ nextH = 1
  /\ command_queue = <<>>
  /\ pending = {}
  /\ rx = {}
  /\ pumpPc = "get" /\ pumpCmd = None /\ pumpSp = None /\ pumpLines = {}
  /\ rcPc = "check" /\ rcSer = None
  /\ reqPc = [r \in Reqs |-> "new"]
  /\ cbCount = [r \in Reqs |-> 0]
  /\ cbArg = [r \in Reqs |-> {}]
  /\ snPc = "idle" /\ snSp = None /\ snRet = FALSE /\ snOp = "none" /\ calls = 0
  /\ send_now_lock = FALSE
  /\ enqOrder = <<>> /\ wrote = <<>> /\ called = <<>> /\ winOpen = {}
  /\ earlier = {}

(***************************************************************************)
(* The device: it can drop off the bus (every open handle breaks, what was *)
(* in flight is lost), come back, and answer a command it has received.    *)
(***************************************************************************)
DeviceDrop ==
  /\ deviceUp /\ faults < MaxFaults
  /\ deviceUp' = FALSE
  /\ faults' = faults + 1
  /\ hstate' = [h \in Handles |-> IF hstate[h] = "open" THEN "broken" ELSE hstate[h]]
  /\ pending' = {} /\ rx' = {}
  /\ UNCHANGED <<serial_port, connected, nextH, command_queue, pumpV, rcV, reqV, cbV,
                 snV, histV>>
  /\ UNCHANGED nonSerialVars

DeviceReturn ==
  /\ ~deviceUp
  /\ deviceUp' = TRUE
  /\ UNCHANGED <<serial_port, connected, faults, hV, command_queue, ioV, pumpV, rcV,
                 reqV, cbV, snV, histV>>
  /\ UNCHANGED nonSerialVars

DeviceRespond ==
  /\ deviceUp
  /\ \E t \in pending :
       /\ pending' = pending \ {t}
       /\ rx' = rx \cup {t}
  /\ UNCHANGED <<serial_port, connected, devV, hV, command_queue, pumpV, rcV, reqV, cbV,
                 snV, histV>>
  /\ UNCHANGED nonSerialVars

(***************************************************************************)
(* _reconnect_loop and connect_serial, one statement per step.             *)
(***************************************************************************)
RcCheck ==
  /\ rcPc = "check"
  /\ ~IsOpen(serial_port)
  /\ rcPc' = "connect"
  /\ UNCHANGED <<serial_port, connected, devV, hV, command_queue, ioV, pumpV, rcSer,
                 reqV, cbV, snV, histV>>
  /\ UNCHANGED nonSerialVars

\* port found and serial.Serial() succeeds; stale input is flushed
RcOpen ==
  /\ rcPc = "connect"
  /\ deviceUp /\ nextH <= MaxHandles
  /\ rcSer' = nextH
  /\ hstate' = [hstate EXCEPT ![nextH] = "open"]
  /\ nextH' = nextH + 1
  /\ rx' = {}
  /\ rcPc' = "publish"
  /\ UNCHANGED <<serial_port, connected, devV, command_queue, pending, pumpV, reqV, cbV,
                 snV, histV>>
  /\ UNCHANGED nonSerialVars

\* no port found, or serial.Serial() raises
RcOpenFail ==
  /\ rcPc = "connect"
  /\ ~deviceUp
  /\ rcPc' = "fail_clear"
  /\ UNCHANGED <<serial_port, connected, devV, hV, command_queue, ioV, pumpV, rcSer,
                 reqV, cbV, snV, histV>>
  /\ UNCHANGED nonSerialVars

RcPublish ==
  /\ rcPc = "publish"
  /\ serial_port' = rcSer
  /\ rcPc' = "set"
  /\ UNCHANGED <<connected, devV, hV, command_queue, ioV, pumpV, rcSer, reqV, cbV, snV,
                 histV>>
  /\ UNCHANGED nonSerialVars

RcSet ==
  /\ rcPc = "set"
  /\ connected' = TRUE
  /\ rcPc' = "check"
  /\ UNCHANGED <<serial_port, devV, hV, command_queue, ioV, pumpV, rcSer, reqV, cbV, snV,
                 histV>>
  /\ UNCHANGED nonSerialVars

RcFailClear ==
  /\ rcPc = "fail_clear"
  /\ connected' = FALSE
  /\ rcPc' = "fail_none"
  /\ UNCHANGED <<serial_port, devV, hV, command_queue, ioV, pumpV, rcSer, reqV, cbV, snV,
                 histV>>
  /\ UNCHANGED nonSerialVars

RcFailNone ==
  /\ rcPc = "fail_none"
  /\ serial_port' = None
  /\ rcPc' = "check"
  /\ UNCHANGED <<connected, devV, hV, command_queue, ioV, pumpV, rcSer, reqV, cbV, snV,
                 histV>>
  /\ UNCHANGED nonSerialVars

(***************************************************************************)
(* send_gcode: the caller side of a queued request.                        *)
(***************************************************************************)
ReqRefused(r) ==
  /\ reqPc[r] = "new"
  /\ ~IsOpen(serial_port)
  /\ reqPc' = [reqPc EXCEPT ![r] = "returned"]
  /\ UNCHANGED <<serial_port, connected, devV, hV, command_queue, ioV, pumpV, rcV, cbV, snV, histV>>
  /\ UNCHANGED nonSerialVars

ReqEnqueue(r) ==
  /\ reqPc[r] = "new"
  /\ IsOpen(serial_port)
  /\ command_queue' = Append(command_queue, r)
  /\ enqOrder' = Append(enqOrder, r)
  /\ reqPc' = [reqPc EXCEPT ![r] = "waiting"]
  /\ UNCHANGED <<serial_port, connected, devV, hV, ioV, pumpV, rcV, cbV, snV,
                 wrote, called, winOpen, earlier>>
  /\ UNCHANGED nonSerialVars

\* done.wait() returns because the completer ran; the caller gets cbArg[r]
ReqDone(r) ==
  /\ reqPc[r] = "waiting"
  /\ cbCount[r] > 0
  /\ reqPc' = [reqPc EXCEPT ![r] = "returned"]
  /\ UNCHANGED <<serial_port, connected, devV, hV, command_queue, ioV, pumpV, rcV, cbV,
                 snV, histV>>
  /\ UNCHANGED nonSerialVars

\* done.wait(timeout) expires: the caller returns what it has, the entry stays queued
ReqTimeout(r) ==
  /\ reqPc[r] = "waiting"
  /\ cbCount[r] = 0
  /\ reqPc' = [reqPc EXCEPT ![r] = "returned"]
  /\ UNCHANGED <<serial_port, connected, devV, hV, command_queue, ioV, pumpV, rcV, cbV, snV, histV>>
  /\ UNCHANGED nonSerialVars

(***************************************************************************)
(* _process_queue: the request pump.                                       *)
(***************************************************************************)
\* a last-in first-out get: the variant of QueueGet under which C4_Fifo fails
QueueGetLast(q) == Len(q)

\* queue.Queue.get(): the index of the entry that is taken
QueueGet(q) == 1

RemoveAt(q, i) == SubSeq(q, 1, i - 1) \o SubSeq(q, i + 1, Len(q))

PumpGet ==
  /\ pumpPc = "get"
  /\ command_queue # <<>>
  /\ pumpCmd' = command_queue[QueueGet(command_queue)]
  /\ command_queue' = RemoveAt(command_queue, QueueGet(command_queue))
  /\ pumpPc' = "check"
  /\ UNCHANGED <<serial_port, connected, devV, hV, ioV, pumpSp, pumpLines, rcV, reqV, cbV,
                 snV, histV>>
  /\ UNCHANGED nonSerialVars

\* the completer: cb(lines) extends the caller's list and sets its event
Callback(r, lines) ==
  /\ cbCount' = [cbCount EXCEPT ![r] = @ + 1]
  /\ cbArg' = [cbArg EXCEPT ![r] = lines]
  /\ called' = Append(called, r)

PumpNotConnected ==
  /\ pumpPc = "check"
  /\ ~IsOpen(serial_port)
  /\ Callback(pumpCmd, {})
  /\ pumpPc' = "get"
  /\ pumpCmd' = None
  /\ pumpSp' = None
  /\ UNCHANGED <<serial_port, connected, devV, hV, command_queue, ioV, pumpLines, rcV,
                 reqV, snV, enqOrder, wrote, winOpen, earlier>>
  /\ UNCHANGED nonSerialVars

PumpCheckOk ==
  /\ pumpPc = "check"
  /\ IsOpen(serial_port)
  /\ pumpSp' = serial_port
  /\ pumpPc' = "write"
  /\ UNCHANGED <<serial_port, connected, devV, hV, command_queue, ioV, pumpCmd, pumpLines,
                 rcV, reqV, cbV, snV, histV>>
  /\ UNCHANGED nonSerialVars

PumpWrite ==
  /\ pumpPc = "write"
  /\ Usable(pumpSp)
  /\ pending' = pending \cup {pumpCmd}
  /\ wrote' = Append(wrote, pumpCmd)
  /\ winOpen' = winOpen \cup {pumpCmd}
  /\ pumpPc' = "flush"
  /\ UNCHANGED <<serial_port, connected, devV, hV, command_queue, rx, pumpCmd, pumpSp,
                 pumpLines, rcV, reqV, cbV, snV, enqOrder, called, earlier>>
  /\ UNCHANGED nonSerialVars

PumpFlush ==
  /\ pumpPc = "flush"
  /\ Usable(pumpSp)
  /\ pumpLines' = {}
  /\ pumpPc' = "read"
  /\ UNCHANGED <<serial_port, connected, devV, hV, command_queue, ioV, pumpCmd, pumpSp,
                 rcV, reqV, cbV, snV, histV>>
  /\ UNCHANGED nonSerialVars

\* sp.write / sp.flush / sp.in_waiting raises on a handle that is closed or broken
PumpIoError ==
  /\ pumpPc \in {"write", "flush", "read"}
  /\ ~Usable(pumpSp)
  /\ pumpPc' = "err_close"
  /\ winOpen' = winOpen \ {pumpCmd}
  /\ UNCHANGED <<serial_port, connected, devV, hV, command_queue, ioV, pumpCmd, pumpSp,
                 pumpLines, rcV, reqV, cbV, snV, enqOrder, wrote, called, earlier>>
  /\ UNCHANGED nonSerialVars

PumpReadLine ==
  /\ pumpPc = "read"
  /\ Usable(pumpSp)
  /\ \E t \in rx :
       /\ rx' = rx \ {t}
       /\ pumpLines' = pumpLines \cup {t}
  /\ UNCHANGED <<serial_port, connected, devV, hV, command_queue, pending, pumpPc,
                 pumpCmd, pumpSp, rcV, reqV, cbV, snV, histV>>
  /\ UNCHANGED nonSerialVars

\* the port stayed silent for the read window
PumpWindowEnd ==
  /\ pumpPc = "read"
  /\ Usable(pumpSp)
  /\ rx = {}
  /\ pumpPc' = "cb"
  /\ winOpen' = winOpen \ {pumpCmd}
  /\ UNCHANGED <<serial_port, connected, devV, hV, command_queue, ioV, pumpCmd, pumpSp,
                 pumpLines, rcV, reqV, cbV, snV, enqOrder, wrote, called, earlier>>
  /\ UNCHANGED nonSerialVars

PumpErrClose ==
  /\ pumpPc = "err_close"
  /\ hstate' = [hstate EXCEPT ![pumpSp] = "closed"]
  /\ pumpPc' = "err_none"
  /\ UNCHANGED <<serial_port, connected, devV, nextH, command_queue, ioV, pumpCmd, pumpSp,
                 pumpLines, rcV, reqV, cbV, snV, histV>>
  /\ UNCHANGED nonSerialVars

PumpErrNone ==
  /\ pumpPc = "err_none"
  /\ serial_port' = None
  /\ pumpPc' = "err_clear"
  /\ UNCHANGED <<connected, devV, hV, command_queue, ioV, pumpCmd, pumpSp, pumpLines,
                 rcV, reqV, cbV, snV, histV>>
  /\ UNCHANGED nonSerialVars

PumpErrClear ==
  /\ pumpPc = "err_clear"
  /\ connected' = FALSE
  /\ pumpLines' = {}
  /\ pumpPc' = "cb"
  /\ UNCHANGED <<serial_port, devV, hV, command_queue, ioV, pumpCmd, pumpSp, rcV, reqV,
                 cbV, snV, histV>>
  /\ UNCHANGED nonSerialVars

PumpCallback ==
  /\ pumpPc = "cb"
  /\ Callback(pumpCmd, pumpLines)
  /\ pumpPc' = "get"
  /\ pumpCmd' = None
  /\ pumpSp' = None
  /\ pumpLines' = {}
  /\ UNCHANGED <<serial_port, connected, devV, hV, command_queue, ioV, rcV, reqV, snV,
                 enqOrder, wrote, winOpen, earlier>>
  /\ UNCHANGED nonSerialVars

(***************************************************************************)
(* send_now and wait_for_motion_complete, run by one caller thread.        *)
(*   snOp = "now"   a plain send_now(cmd)                                  *)
(*   snOp = "m400"  wait_for_motion_complete: send_now("M400"), then poll  *)
(***************************************************************************)
SnStartNow ==
  /\ snPc = "idle" /\ calls < MaxCalls
  /\ calls' = calls + 1
  /\ snOp' = "now"
  /\ snPc' = "check"
  /\ UNCHANGED <<serial_port, connected, devV, hV, command_queue, ioV, pumpV, rcV, reqV,
                 cbV, snSp, snRet, send_now_lock, histV>>
  /\ UNCHANGED nonSerialVars

WmStart ==
  /\ snPc = "idle" /\ calls < MaxCalls
  /\ calls' = calls + 1
  /\ snOp' = "m400"
  /\ snPc' = "wm_check"
  /\ UNCHANGED <<serial_port, connected, devV, hV, command_queue, ioV, pumpV, rcV, reqV,
                 cbV, snSp, snRet, send_now_lock, histV>>
  /\ UNCHANGED nonSerialVars

WmNotConnected ==
  /\ snPc = "wm_check"
  /\ ~IsOpen(serial_port)
  /\ snRet' = FALSE
  /\ snPc' = "idle"
  /\ UNCHANGED <<serial_port, connected, devV, hV, command_queue, ioV, pumpV, rcV, reqV,
                 cbV, snSp, snOp, calls, send_now_lock, histV>>
  /\ UNCHANGED nonSerialVars

\* sp.reset_input_buffer() (errors ignored), then send_now("M400")
WmReset ==
  /\ snPc = "wm_check"
  /\ IsOpen(serial_port)
  /\ rx' = IF Usable(serial_port) THEN {} ELSE rx
  /\ snPc' = "check"
  /\ UNCHANGED <<serial_port, connected, devV, hV, command_queue, pending, pumpV, rcV,
                 reqV, cbV, snSp, snRet, snOp, calls, send_now_lock, histV>>
  /\ UNCHANGED nonSerialVars

SnNotConnected ==
  /\ snPc = "check"
  /\ ~IsOpen(serial_port)
  /\ snRet' = FALSE
  /\ snPc' = "idle"
  /\ UNCHANGED <<serial_port, connected, devV, hV, command_queue, ioV, pumpV, rcV, reqV,
                 cbV, snSp, snOp, calls, send_now_lock, histV>>
  /\ UNCHANGED nonSerialVars

SnCheckOk ==
  /\ snPc = "check"
  /\ IsOpen(serial_port)
  /\ snSp' = serial_port
  /\ snPc' = "lock"
  /\ UNCHANGED <<serial_port, connected, devV, hV, command_queue, ioV, pumpV, rcV, reqV,
                 cbV, snRet, snOp, calls, send_now_lock, histV>>
  /\ UNCHANGED nonSerialVars

SnLock ==
  /\ snPc = "lock"
  /\ ~send_now_lock
  /\ send_now_lock' = TRUE
  /\ snPc' = "write"
  /\ UNCHANGED <<serial_port, connected, devV, hV, command_queue, ioV, pumpV, rcV, reqV,
                 cbV, snSp, snRet, snOp, calls, histV>>
  /\ UNCHANGED nonSerialVars

SnWrite ==
  /\ snPc = "write"
  /\ Usable(snSp)
  /\ pending' = pending \cup {NowTag}
  /\ earlier' = IF snOp = "m400" THEN pending ELSE earlier
  /\ snPc' = "flush"
  /\ UNCHANGED <<serial_port, connected, devV, hV, command_queue, rx, pumpV, rcV, reqV,
                 cbV, snSp, snRet, snOp, calls, send_now_lock, enqOrder, wrote, called,
                 winOpen>>
  /\ UNCHANGED nonSerialVars

\* flush returns, the lock is released, send_now returns True
SnFlush ==
  /\ snPc = "flush"
  /\ Usable(snSp)
  /\ send_now_lock' = FALSE
  /\ snRet' = TRUE
  /\ snPc' = IF snOp = "m400" THEN "wm_poll" ELSE "idle"
  /\ UNCHANGED <<serial_port, connected, devV, hV, command_queue, ioV, pumpV, rcV, reqV,
                 cbV, snSp, snOp, calls, histV>>
  /\ UNCHANGED nonSerialVars

\* sp.write / sp.flush raises: the with-block releases the lock, the handler runs
SnIoError ==
  /\ snPc \in {"write", "flush"}
  /\ ~Usable(snSp)
  /\ send_now_lock' = FALSE
  /\ snPc' = "err_close"
  /\ UNCHANGED <<serial_port, connected, devV, hV, command_queue, ioV, pumpV, rcV, reqV,
                 cbV, snSp, snRet, snOp, calls, histV>>
  /\ UNCHANGED nonSerialVars

SnErrClose ==
  /\ snPc = "err_close"
  /\ hstate' = [hstate EXCEPT ![snSp] = "closed"]
  /\ snPc' = "err_none"
  /\ UNCHANGED <<serial_port, connected, devV, nextH, command_queue, ioV, pumpV, rcV,
                 reqV, cbV, snSp, snRet, snOp, calls, send_now_lock, histV>>
  /\ UNCHANGED nonSerialVars

SnErrNone ==
  /\ snPc = "err_none"
  /\ serial_port' = None
  /\ snPc' = "err_clear"
  /\ UNCHANGED <<connected, devV, hV, command_queue, ioV, pumpV, rcV, reqV, cbV, snSp,
                 snRet, snOp, calls, send_now_lock, histV>>
  /\ UNCHANGED nonSerialVars

\* _connected_event.clear(); return False (wait_for_motion_complete then returns False)
SnErrClear ==
  /\ snPc = "err_clear"
  /\ connected' = FALSE
  /\ snRet' = FALSE
  /\ snPc' = "idle"
  /\ UNCHANGED <<serial_port, devV, hV, command_queue, ioV, pumpV, rcV, reqV, cbV, snSp,
                 snOp, calls, send_now_lock, histV>>
  /\ UNCHANGED nonSerialVars

\* the barrier's poll loop reads a line holding "ok"
WmReadOk ==
  /\ snPc = "wm_poll"
  /\ Usable(serial_port)
  /\ \E t \in rx : rx' = rx \ {t}
  /\ snRet' = TRUE
  /\ snPc' = "idle"
  /\ UNCHANGED <<serial_port, connected, devV, hV, command_queue, pending, pumpV, rcV,
                 reqV, cbV, snSp, snOp, calls, send_now_lock, histV>>
  /\ UNCHANGED nonSerialVars

\* timeout of the barrier, or the port died mid-wait
WmGiveUp ==
  /\ snPc = "wm_poll"
  /\ snRet' = FALSE
  /\ snPc' = "idle"
  /\ UNCHANGED <<serial_port, connected, devV, hV, command_queue, ioV, pumpV, rcV, reqV,
                 cbV, snSp, snOp, calls, send_now_lock, histV>>
  /\ UNCHANGED nonSerialVars

(***************************************************************************)
(* Specification of the serial manager.                                    *)
(***************************************************************************)
Device == DeviceDrop \/ DeviceReturn \/ DeviceRespond

Reconnect ==
  \/ RcCheck \/ RcOpen \/ RcOpenFail \/ RcPublish \/ RcSet \/ RcFailClear \/ RcFailNone

Pump ==
  \/ PumpGet \/ PumpNotConnected \/ PumpCheckOk \/ PumpWrite \/ PumpFlush \/ PumpIoError
  \/ PumpReadLine \/ PumpWindowEnd \/ PumpErrClose \/ PumpErrNone \/ PumpErrClear
  \/ PumpCallback

Caller ==
  \/ SnStartNow \/ WmStart \/ WmNotConnected \/ WmReset \/ SnNotConnected \/ SnCheckOk
  \/ SnLock \/ SnWrite \/ SnFlush \/ SnIoError \/ SnErrClose \/ SnErrNone \/ SnErrClear
  \/ WmReadOk \/ WmGiveUp

Requests == \E r \in Reqs : ReqRefused(r) \/ ReqEnqueue(r) \/ ReqDone(r) \/ ReqTimeout(r)

SerialNext == Device \/ Reconnect \/ Pump \/ Caller \/ Requests

(***************************************************************************)
(* Mode discipline.  Threads:                                              *)
(*   jog    main._jog_worker running pssc.jog_once (deltaMove or rotate)   *)
(*   ui     UI continuous-move worker, X/Y/Z branch                        *)
(*   uirot  UI continuous-move worker, rotate branch                       *)
(*   kbd    keyboard continuous-jog worker                                 *)
(*   multi  the request thread of /multipath running pssc.deltaMove        *)
(*   stop   the request thread of /move_probe/stop                         *)
(*   abs    a request thread running pssc.move_absolute on X, Y or Z       *)
(***************************************************************************)
Threads == {"jog", "ui", "uirot", "kbd", "multi", "stop", "abs"}

ModeInit ==
  /\ pc = [t \in Threads |-> "idle"]
  /\ uiLock = "free"
  /\ kbLock = "free"
  /\ stopFlag = [t \in {"ui", "uirot", "kbd"} |-> FALSE]
  /\ okSetup = TRUE
  /\ urG90ok = FALSE
  /\ urElapsed = FALSE
  /\ uiTick = FALSE
  /\ link = "up"
  /\ mFaults = 0
  /\ wireMode = "G90"
  /\ wireLast = "none"

\* what a delivered command does to the firmware's positioning mode
WireAfter(cmd) == IF cmd \in {"G90", "G91"} THEN cmd ELSE wireMode

\* kind of a command: mode switch, relative step, absolute E move, or setup
Kind(cmd) ==
  IF cmd \in {"G90", "G91"} THEN "mode"
  ELSE IF cmd \in {"G1", "G1E"} THEN "rel"
  ELSE IF cmd = "G0E" THEN "absE"
  ELSE IF cmd = "G0" THEN "abs"
  ELSE "setup"

(***************************************************************************)
(* send_now(cmd) seen from a worker: ok = True when the line was written;  *)
(* False when no open handle is published, or when the write raised (the   *)
(* handler then drops the handle).                                         *)
(***************************************************************************)
SendNow(cmd, ok) ==
  \/ /\ link = "up" /\ ok
     /\ wireMode' = WireAfter(cmd)
     /\ wireLast' = Kind(cmd)
     /\ UNCHANGED <<link, mFaults>>
  \/ /\ link = "up" /\ ~ok /\ mFaults < MaxModeFaults
     /\ link' = "down"
     /\ mFaults' = mFaults + 1
     /\ UNCHANGED <<wireMode, wireLast>>
  \/ /\ link = "down" /\ ~ok
     /\ UNCHANGED <<link, mFaults, wireMode, wireLast>>

\* the reconnect watcher publishes a new handle
ModeReconnect ==
  /\ link = "down"
  /\ link' = "up"
  /\ UNCHANGED <<pc, uiLock, kbLock, stopFlag, okSetup, urG90ok, urElapsed, uiTick, mFaults, wireMode,
                 wireLast>>
  /\ UNCHANGED nonModeVars

Goto(t, l) == pc' = [pc EXCEPT ![t] = l]

\* frame of a worker step that only moves the worker and talks to the wire
Quiet == UNCHANGED <<uiLock, kbLock, stopFlag, okSetup, urG90ok, urElapsed, uiTick>>

\* leaving `with _UI_MODE_LOCK:` / `with pssc.UI_MODE_LOCK:`
ReleaseUi(t) == uiLock' = IF uiLock = t THEN "free" ELSE uiLock

\* ---- pssc.deltaMove, run by the jog worker (under main._UI_MODE_LOCK) and by
\* ---- _run_multisweep_sequence (under no lock)
DeltaThreads == {"jog", "multi"}

JogTake(kind) ==
  /\ pc["jog"] = "idle"
  /\ uiLock = "free"
  /\ uiLock' = "jog"
  /\ Goto("jog", IF kind = "rotate" THEN "r_conn" ELSE "d_conn")
  /\ UNCHANGED <<kbLock, stopFlag, okSetup, urG90ok, urElapsed, uiTick, link, mFaults, wireMode, wireLast>>
  /\ UNCHANGED nonModeVars

MultiStart ==
  /\ pc["multi"] = "idle"
  /\ Goto("multi", "d_conn")
  /\ UNCHANGED <<uiLock, kbLock, stopFlag, okSetup, urG90ok, urElapsed, uiTick, link, mFaults, wireMode, wireLast>>
  /\ UNCHANGED nonModeVars

\* _ensure_connected: event set, or one connect_serial attempt
EnsureConnected(t, at, to) ==
  /\ pc[t] = at
  /\ \/ /\ link = "up"
        /\ Goto(t, to)
        /\ UNCHANGED <<link, uiLock>>
     \/ /\ link = "down"
        /\ link' = "up"
        /\ Goto(t, to)
        /\ UNCHANGED uiLock
     \/ /\ link = "down"
        /\ Goto(t, "idle")
        /\ ReleaseUi(t)
        /\ UNCHANGED link
  /\ UNCHANGED <<kbLock, stopFlag, okSetup, urG90ok, urElapsed, uiTick, mFaults, wireMode, wireLast>>
  /\ UNCHANGED nonModeVars

DeltaConn(t) == EnsureConnected(t, "d_conn", "d_g91")

DeltaG91(t) ==
  /\ pc[t] = "d_g91"
  /\ \E ok \in BOOLEAN : SendNow("G91", ok)
  /\ Goto(t, "d_feed")
  /\ Quiet
  /\ UNCHANGED nonModeVars

DeltaFeed(t) ==
  /\ pc[t] = "d_feed"
  /\ \E ok \in BOOLEAN : SendNow("G1F", ok)
  /\ Goto(t, "d_move")
  /\ Quiet
  /\ UNCHANGED nonModeVars

DeltaStep(t) ==
  /\ pc[t] = "d_move"
  /\ \E ok \in BOOLEAN : SendNow("G1", ok)
  /\ Goto(t, "d_g90")
  /\ Quiet
  /\ UNCHANGED nonModeVars

DeltaG90(t) ==
  /\ pc[t] = "d_g90"
  /\ \E ok \in BOOLEAN : SendNow("G90", ok)
  /\ Goto(t, "idle")
  /\ ReleaseUi(t)
  /\ UNCHANGED <<kbLock, stopFlag, okSetup, urG90ok, urElapsed, uiTick>>
  /\ UNCHANGED nonModeVars

deltaMove(t) == DeltaConn(t) \/ DeltaG91(t) \/ DeltaFeed(t) \/ DeltaStep(t) \/ DeltaG90(t)

\* ---- pssc.rotate_nozzle_*, run by the jog worker under main._UI_MODE_LOCK
RotConn == EnsureConnected("jog", "r_conn", "r_m302")

RotM302 ==
  /\ pc["jog"] = "r_m302"
  /\ \E ok \in BOOLEAN : SendNow("M302", ok)
  /\ Goto("jog", "r_g21")
  /\ Quiet
  /\ UNCHANGED nonModeVars

\* move_absolute("E", e): _ensure_units_and_absolute, then the absolute E move
RotG21 ==
  /\ pc["jog"] = "r_g21"
  /\ \E ok \in BOOLEAN : SendNow("G21", ok)
  /\ Goto("jog", "r_g90")
  /\ Quiet
  /\ UNCHANGED nonModeVars

RotG90 ==
  /\ pc["jog"] = "r_g90"
  /\ \E ok \in BOOLEAN : SendNow("G90", ok)
  /\ Goto("jog", "r_e")
  /\ Quiet
  /\ UNCHANGED nonModeVars

RotE ==
  /\ pc["jog"] = "r_e"
  /\ \E ok \in BOOLEAN : SendNow("G0E", ok)
  /\ Goto("jog", "idle")
  /\ ReleaseUi("jog")
  /\ UNCHANGED <<kbLock, stopFlag, okSetup, urG90ok, urElapsed, uiTick>>
  /\ UNCHANGED nonModeVars

rotate_nozzle == RotConn \/ RotM302 \/ RotG21 \/ RotG90 \/ RotE

\* ---- pssc.move_absolute(axis, position) on X, Y or Z, called from a request
\* ---- thread under no lock: _ensure_units_and_absolute, then send_gcode
AbsStart ==
  /\ pc["abs"] = "idle"
  /\ Goto("abs", "a_g21")
  /\ UNCHANGED <<uiLock, kbLock, stopFlag, okSetup, urG90ok, urElapsed, uiTick, link, mFaults, wireMode, wireLast>>
  /\ UNCHANGED nonModeVars

AbsG21 ==
  /\ pc["abs"] = "a_g21"
  /\ \E ok \in BOOLEAN : SendNow("G21", ok)
  /\ Goto("abs", "a_g90")
  /\ Quiet
  /\ UNCHANGED nonModeVars

AbsG90 ==
  /\ pc["abs"] = "a_g90"
  /\ \E ok \in BOOLEAN : SendNow("G90", ok)
  /\ Goto("abs", "a_move")
  /\ Quiet
  /\ UNCHANGED nonModeVars

\* send_gcode("G0 <axis><pos>"): the request pump writes the line
AbsMove ==
  /\ pc["abs"] = "a_move"
  /\ \E ok \in BOOLEAN : SendNow("G0", ok)
  /\ Goto("abs", "idle")
  /\ Quiet
  /\ UNCHANGED nonModeVars

AbsoluteMove == AbsStart \/ AbsG21 \/ AbsG90 \/ AbsMove

\* ---- main._start_ui_continuous_move, X/Y/Z branch of _worker
UiStart ==
  /\ pc["ui"] = "idle"
  /\ stopFlag' = [stopFlag EXCEPT !["ui"] = FALSE]
  /\ Goto("ui", "u_lock")
  /\ UNCHANGED <<uiLock, kbLock, okSetup, urG90ok, urElapsed, uiTick, link, mFaults, wireMode, wireLast>>
  /\ UNCHANGED nonModeVars

UiLock ==
  /\ pc["ui"] = "u_lock"
  /\ uiLock = "free"
  /\ uiLock' = "ui"
  /\ Goto("ui", "u_g91")
  /\ UNCHANGED <<kbLock, stopFlag, okSetup, urG90ok, urElapsed, uiTick, link, mFaults, wireMode, wireLast>>
  /\ UNCHANGED nonModeVars

UiG91 ==
  /\ pc["ui"] = "u_g91"
  /\ \E ok \in BOOLEAN : SendNow("G91", ok) /\ okSetup' = ok
  /\ Goto("ui", "u_feed")
  /\ UNCHANGED <<uiLock, kbLock, stopFlag, urG90ok, urElapsed, uiTick>>
  /\ UNCHANGED nonModeVars

\* second setup command; `if not ok_setup: return` leaves the lock without G90
UiFeed ==
  /\ pc["ui"] = "u_feed"
  /\ \E ok \in BOOLEAN :
       /\ SendNow("G1F", ok)
       /\ IF okSetup /\ ok
            THEN Goto("ui", "u_loop") /\ UNCHANGED uiLock
            ELSE Goto("ui", "idle") /\ ReleaseUi("ui")
  /\ okSetup' = TRUE
  /\ UNCHANGED <<kbLock, stopFlag, urG90ok, urElapsed, uiTick>>
  /\ UNCHANGED nonModeVars

UiLoopStep ==
  /\ pc["ui"] = "u_loop"
  /\ ~stopFlag["ui"]
  /\ \E ok \in BOOLEAN :
       /\ SendNow("G1", ok)
       /\ Goto("ui", IF ok THEN "u_loop" ELSE "u_g90")
       /\ uiTick' = (ok /\ ~uiTick)
  /\ UNCHANGED <<uiLock, kbLock, stopFlag, okSetup, urG90ok, urElapsed>>
  /\ UNCHANGED nonModeVars

UiLoopEnd ==
  /\ pc["ui"] = "u_loop"
  /\ stopFlag["ui"]
  /\ Goto("ui", "u_g90")
  /\ uiTick' = FALSE
  /\ UNCHANGED <<uiLock, kbLock, stopFlag, okSetup, urG90ok, urElapsed, link, mFaults,
                 wireMode, wireLast>>
  /\ UNCHANGED nonModeVars

UiG90 ==
  /\ pc["ui"] = "u_g90"
  /\ \E ok \in BOOLEAN : SendNow("G90", ok)
  /\ Goto("ui", "idle")
  /\ ReleaseUi("ui")
  /\ UNCHANGED <<kbLock, stopFlag, okSetup, urG90ok, urElapsed, uiTick>>
  /\ UNCHANGED nonModeVars

UiWorker == UiStart \/ UiLock \/ UiG91 \/ UiFeed \/ UiLoopStep \/ UiLoopEnd \/ UiG90

\* ---- main._start_ui_continuous_move, rotate branch of _worker
UrStart ==
  /\ pc["uirot"] = "idle"
  /\ stopFlag' = [stopFlag EXCEPT !["uirot"] = FALSE]
  /\ urG90ok' = FALSE
  /\ urElapsed' = FALSE
  /\ Goto("uirot", "ur_pre")
  /\ UNCHANGED <<uiLock, kbLock, okSetup, uiTick, link, mFaults, wireMode, wireLast>>
  /\ UNCHANGED nonModeVars

UrPreM302 ==
  /\ pc["uirot"] = "ur_pre"
  /\ \E ok \in BOOLEAN : SendNow("M302", ok)
  /\ Goto("uirot", "ur_lock")
  /\ Quiet
  /\ UNCHANGED nonModeVars

UrLock ==
  /\ pc["uirot"] = "ur_lock"
  /\ uiLock = "free"
  /\ uiLock' = "uirot"
  /\ Goto("uirot", "ur_m302")
  /\ UNCHANGED <<kbLock, stopFlag, okSetup, urG90ok, urElapsed, uiTick, link, mFaults, wireMode, wireLast>>
  /\ UNCHANGED nonModeVars

UrM302 ==
  /\ pc["uirot"] = "ur_m302"
  /\ \E ok \in BOOLEAN : SendNow("M302", ok)
  /\ Goto("uirot", "ur_g91")
  /\ Quiet
  /\ UNCHANGED nonModeVars

UrG91 ==
  /\ pc["uirot"] = "ur_g91"
  /\ \E ok \in BOOLEAN :
       /\ SendNow("G91", ok)
       /\ IF ok
            THEN Goto("uirot", "ur_feed") /\ UNCHANGED <<uiLock, urElapsed>>
            ELSE Goto("uirot", "idle") /\ ReleaseUi("uirot") /\ urElapsed' = FALSE
  /\ UNCHANGED <<kbLock, stopFlag, okSetup, urG90ok, uiTick>>
  /\ UNCHANGED nonModeVars

UrFeed ==
  /\ pc["uirot"] = "ur_feed"
  /\ \E ok \in BOOLEAN : SendNow("G1F", ok)
  /\ Goto("uirot", "ur_loop")
  /\ Quiet
  /\ UNCHANGED nonModeVars

UrLoopStep ==
  /\ pc["uirot"] = "ur_loop"
  /\ ~stopFlag["uirot"]
  /\ ~urElapsed
  /\ \E ok \in BOOLEAN :
       /\ SendNow("G1E", ok)
       /\ Goto("uirot", IF ok THEN "ur_loop" ELSE "ur_g90")
  /\ Quiet
  /\ UNCHANGED nonModeVars

\* the loop ends on the stop flag or when max_run seconds have passed
UrLoopEnd ==
  /\ pc["uirot"] = "ur_loop"
  /\ stopFlag["uirot"] \/ urElapsed
  /\ Goto("uirot", "ur_g90")
  /\ UNCHANGED <<uiLock, kbLock, stopFlag, okSetup, urG90ok, urElapsed, uiTick, link, mFaults, wireMode,
                 wireLast>>
  /\ UNCHANGED nonModeVars

UrG90 ==
  /\ pc["uirot"] = "ur_g90"
  /\ \E ok \in BOOLEAN : SendNow("G90", ok) /\ urG90ok' = ok
  /\ Goto("uirot", "ur_post")
  /\ ReleaseUi("uirot")
  /\ UNCHANGED <<kbLock, stopFlag, okSetup, urElapsed, uiTick>>
  /\ UNCHANGED nonModeVars

UrPostG90 ==
  /\ pc["uirot"] = "ur_post"
  /\ \E ok \in BOOLEAN : SendNow("G90", ok)
  /\ Goto("uirot", "idle")
  /\ urG90ok' = FALSE
  /\ urElapsed' = FALSE
  /\ UNCHANGED <<uiLock, kbLock, stopFlag, okSetup, uiTick>>
  /\ UNCHANGED nonModeVars

\* max_run seconds pass after start_time was taken (before the lock is awaited)
UrTimeUp ==
  /\ pc["uirot"] \in {"ur_lock", "ur_m302", "ur_g91", "ur_feed", "ur_loop"}
  /\ ~urElapsed
  /\ urElapsed' = TRUE
  /\ UNCHANGED <<pc, uiLock, kbLock, stopFlag, okSetup, urG90ok, uiTick, link, mFaults,
                 wireMode, wireLast>>
  /\ UNCHANGED nonModeVars

UiRotateWorker ==
  UrStart \/ UrPreM302 \/ UrLock \/ UrM302 \/ UrG91 \/ UrFeed \/ UrLoopStep \/ UrLoopEnd
    \/ UrG90 \/ UrPostG90 \/ UrTimeUp

\* ---- main._stop_ui_continuous_move: set the stop flags, then G90 under no lock
StopFlags ==
  /\ pc["stop"] = "idle"
  /\ stopFlag' = [t \in DOMAIN stopFlag |->
                    IF t \in {"ui", "uirot"} /\ pc[t] # "idle" THEN TRUE ELSE stopFlag[t]]
  /\ Goto("stop", "s_g90")
  /\ UNCHANGED <<uiLock, kbLock, okSetup, urG90ok, urElapsed, uiTick, link, mFaults, wireMode, wireLast>>
  /\ UNCHANGED nonModeVars

StopG90 ==
  /\ pc["stop"] = "s_g90"
  /\ \E ok \in BOOLEAN : SendNow("G90", ok)
  /\ Goto("stop", "idle")
  /\ Quiet
  /\ UNCHANGED nonModeVars

_stop_ui_continuous_move == StopFlags \/ StopG90

\* ---- keyboard_control._begin_continuous_jog._worker / _end_continuous_jog
KbStart ==
  /\ pc["kbd"] = "idle"
  /\ link = "up"
  /\ stopFlag' = [stopFlag EXCEPT !["kbd"] = FALSE]
  /\ Goto("kbd", "k_lock")
  /\ UNCHANGED <<uiLock, kbLock, okSetup, urG90ok, urElapsed, uiTick, link, mFaults, wireMode, wireLast>>
  /\ UNCHANGED nonModeVars

KbLock ==
  /\ pc["kbd"] = "k_lock"
  /\ kbLock = "free"
  /\ kbLock' = "kbd"
  /\ Goto("kbd", "k_g91")
  /\ UNCHANGED <<uiLock, stopFlag, okSetup, urG90ok, urElapsed, uiTick, link, mFaults, wireMode, wireLast>>
  /\ UNCHANGED nonModeVars

KbG91 ==
  /\ pc["kbd"] = "k_g91"
  /\ \E ok \in BOOLEAN : SendNow("G91", ok)
  /\ Goto("kbd", "k_loop")
  /\ Quiet
  /\ UNCHANGED nonModeVars

KbLoopStep ==
  /\ pc["kbd"] = "k_loop"
  /\ ~stopFlag["kbd"]
  /\ \E ok \in BOOLEAN : SendNow("G1", ok)
  /\ Goto("kbd", "k_loop")
  /\ Quiet
  /\ UNCHANGED nonModeVars

KbLoopEnd ==
  /\ pc["kbd"] = "k_loop"
  /\ stopFlag["kbd"]
  /\ Goto("kbd", "k_g90")
  /\ UNCHANGED <<uiLock, kbLock, stopFlag, okSetup, urG90ok, urElapsed, uiTick, link, mFaults, wireMode,
                 wireLast>>
  /\ UNCHANGED nonModeVars

KbG90 ==
  /\ pc["kbd"] = "k_g90"
  /\ \E ok \in BOOLEAN : SendNow("G90", ok)
  /\ Goto("kbd", "idle")
  /\ kbLock' = "free"
  /\ UNCHANGED <<uiLock, stopFlag, okSetup, urG90ok, urElapsed, uiTick>>
  /\ UNCHANGED nonModeVars

KbStop ==
  /\ pc["kbd"] # "idle"
  /\ ~stopFlag["kbd"]
  /\ stopFlag' = [stopFlag EXCEPT !["kbd"] = TRUE]
  /\ UNCHANGED <<pc, uiLock, kbLock, okSetup, urG90ok, urElapsed, uiTick, link, mFaults, wireMode, wireLast>>
  /\ UNCHANGED nonModeVars

KeyboardWorker == KbStart \/ KbLock \/ KbG91 \/ KbLoopStep \/ KbLoopEnd \/ KbG90 \/ KbStop

JogWorker == (\E kind \in {"jog", "rotate"} : JogTake(kind)) \/ deltaMove("jog") \/ rotate_nozzle

Multisweep == MultiStart \/ deltaMove("multi")

ModeNext ==
  \/ JogWorker \/ Multisweep \/ UiWorker \/ UiRotateWorker \/ _stop_ui_continuous_move
  \/ KeyboardWorker \/ ModeReconnect

\* the two UI continuous-move workers and _stop_ui_continuous_move alone
UiNext == UiWorker \/ UiRotateWorker \/ _stop_ui_continuous_move \/ ModeReconnect

\* the X/Y/Z worker of the UI, its stop request and an absolute move
MixNext == UiWorker \/ _stop_ui_continuous_move \/ AbsoluteMove \/ ModeReconnect

\* the steps a started worker thread takes by itself
UiRun == UiLock \/ UiG91 \/ UiFeed \/ UiLoopStep \/ UiLoopEnd \/ UiG90
UrRun ==
  UrPreM302 \/ UrLock \/ UrM302 \/ UrG91 \/ UrFeed \/ UrLoopStep \/ UrLoopEnd \/ UrG90
    \/ UrPostG90

(***************************************************************************)
(* Absolute moves.  Lengths are integers in half millimetres, so that the  *)
(* defaults 53.5 and -5.5 are exact.                                       *)
(***************************************************************************)
X_MAX == 236
Y_MAX == 236
Z_MAX == 320
OFFSET_X == -11
OFFSET_Y == -11
OFFSET_Z == -140
TARGET_Z_MM == 200
SCAN_POSE == [X |-> 107, Y |-> 107, Z |-> 20]
SafeLiftZ == 20          \* the Z10 of "G0 X0 Y0 Z10"

AxisMax == [X |-> X_MAX, Y |-> Y_MAX, Z |-> Z_MAX]

\* values a caller may request, and values the environment may configure
Positions == {-10, 0, 100, 236, 400}
Offsets == [X : {OFFSET_X, 140}, Y : {OFFSET_Y}, Z : {OFFSET_Z, -200}]
TargetZs == {TARGET_Z_MM, 400}
Poses == {SCAN_POSE, [X |-> 107, Y |-> 300, Z |-> 20]}

DefaultCfg == [OFFSET |-> [X |-> OFFSET_X, Y |-> OFFSET_Y, Z |-> OFFSET_Z],
               TARGET_Z_MM |-> TARGET_Z_MM, SCAN_POSE |-> SCAN_POSE]

Min(a, b) == IF a < b THEN a ELSE b
Max(a, b) == IF a > b THEN a ELSE b

\* max(0.0, min(float(Config.<A>_MAX), pos))
Clamp(axis, pos) == Max(0, Min(AxisMax[axis], pos))

MoveInit ==
  /\ cfg \in [OFFSET : Offsets, TARGET_Z_MM : TargetZs, SCAN_POSE : Poses]
  /\ moveOp = "none"
  /\ moveReq = 0
  /\ written = <<>>

MoveParked ==
  /\ cfg = DefaultCfg
  /\ moveOp = "none"
  /\ moveReq = 0
  /\ written = <<>>

Target1(axis, v) == [a \in {axis} |-> v]

\* pssc.move_absolute(axis, position): X/Y/Z clamped, E passed through
move_absolute ==
  \E axis \in {"X", "Y", "Z", "E"}, position \in Positions :
    /\ moveOp' = "move_absolute"
    /\ moveReq' = position
    /\ written' = <<Target1(axis, IF axis = "E" THEN position ELSE Clamp(axis, position))>>
    /\ UNCHANGED cfg
    /\ UNCHANGED nonMoveVars

\* pssc.go2StartScan(start_x)
go2StartScan ==
  \E given \in BOOLEAN, start_x \in Positions :
    /\ moveOp' = "go2StartScan"
    /\ moveReq' = IF given THEN start_x ELSE 0
    /\ written' = <<Target1("X", IF given THEN Clamp("X", start_x) ELSE 0)>>
    /\ UNCHANGED cfg
    /\ UNCHANGED nonMoveVars

\* pssc.ScanPath(start_x, end_x): both ends clamped, two moves
ScanPath ==
  \E start_x \in Positions, end_x \in Positions :
    /\ moveOp' = "ScanPath"
    /\ moveReq' = end_x
    /\ written' = <<Target1("X", Clamp("X", start_x)), Target1("X", Clamp("X", end_x))>>
    /\ UNCHANGED cfg
    /\ UNCHANGED nonMoveVars

\* pssc.go2INIT: safe lift, then the centre OFFSET + MAX/2; an early return
\* (homing failed, barrier timed out) leaves out the moves after it
go2INIT ==
  \E moves \in 0..2 :
    /\ moveOp' = "go2INIT"
    /\ moveReq' = moves
    /\ written' = SubSeq(<<[X |-> 0, Y |-> 0, Z |-> SafeLiftZ],
                           [a \in {"X", "Y", "Z"} |-> cfg.OFFSET[a] + AxisMax[a] \div 2]>>,
                         1, moves)
    /\ UNCHANGED cfg
    /\ UNCHANGED nonMoveVars

\* main.api_lower_plate
api_lower_plate ==
  /\ moveOp' = "api_lower_plate"
  /\ moveReq' = cfg.TARGET_Z_MM
  /\ written' = <<Target1("Z", cfg.TARGET_Z_MM)>>
  /\ UNCHANGED cfg
  /\ UNCHANGED nonMoveVars

\* main.api_position_for_scan
api_position_for_scan ==
  /\ moveOp' = "api_position_for_scan"
  /\ moveReq' = 0
  /\ written' = <<cfg.SCAN_POSE>>
  /\ UNCHANGED cfg
  /\ UNCHANGED nonMoveVars

MoveNext ==
  \/ move_absolute \/ go2StartScan \/ ScanPath \/ go2INIT \/ api_lower_plate
  \/ api_position_for_scan

(***************************************************************************)
(* Recorder acquisition loop (record.py main, "distance-based trigger").   *)
(* Lengths are integers in units of tol_mm = 0.10 * e_r_eff.               *)
(***************************************************************************)
SAVE_TOL == 1            \* tol_mm
E_R_EFF == 10            \* e_r_eff = tol_mm / SAVE_TOL_FRAC

\* scan plans <<scan_x0, scan_x1>> read by _read_scan_plan
Plans == {<<0, 25>>, <<0, 30>>, <<5, 30>>, <<0, 8>>}

CeilDiv(a, b) == (a + b - 1) \div b

\* n_samples = max(1, ceil(dx_mm / e_r_eff))
n_samples == Max(1, CeilDiv(scan_x1 - scan_x0, E_R_EFF))

RecInit ==
  /\ \E p \in Plans : scan_x0 = p[1] /\ scan_x1 = p[2]
  /\ recPc = "sdk"
  /\ x_cur = scan_x0
  /\ x_last = scan_x0
  /\ frames_written = 0
  /\ _STOP = FALSE
  /\ recExited = FALSE
  /\ convSpawned = FALSE
  /\ recWire = {}
  /\ probeCalls = {}

RecParked ==
  /\ scan_x0 = 0 /\ scan_x1 = 0
  /\ recPc = "off"
  /\ x_cur = 0
  /\ x_last = 0
  /\ frames_written = 0
  /\ _STOP = FALSE
  /\ recExited = FALSE
  /\ convSpawned = FALSE
  /\ recWire = {}
  /\ probeCalls = {}

\* frames saved by `for s in range(steps)` with its break on x_save > scan_x1 + tol
Saved(steps) ==
  LET ok(s) == x_last + (s + 1) * E_R_EFF <= scan_x1 + SAVE_TOL
  IN  Cardinality({s \in 0..(steps - 1) : \A u \in 0..s : ok(u)})

\* results of the DLL initialisation: "ok", or the call that failed
SdkResults == {"ok", "usgfw2", "probe", "data_view", "mixer"}

\* LoadLibrary, on_init, init_ultrasound_usgfw2, find_connected_probe,
\* data_view_function, mixer_control_function: the first two failures call
\* Close_and_release before sys.exit(1), the last two call sys.exit(1) alone
RecSdkInit(r) ==
  /\ recPc = "sdk"
  /\ IF r = "ok"
       THEN /\ recPc' = "loop"
            /\ UNCHANGED <<recExited, probeCalls>>
       ELSE /\ recPc' = "initfail"
            /\ recExited' = TRUE
            /\ probeCalls' = IF r \in {"usgfw2", "probe"} THEN probeCalls \cup {"close"}
                                                         ELSE probeCalls
  /\ UNCHANGED <<scan_x0, scan_x1, x_cur, x_last, frames_written, _STOP, convSpawned,
                 recWire>>
  /\ UNCHANGED nonRecVars

\* _sig_stop: SIGTERM or SIGINT arrives while the recorder process runs
RecSignal ==
  /\ recPc # "off"
  /\ ~recExited
  /\ ~_STOP
  /\ _STOP' = TRUE
  /\ UNCHANGED <<recPc, scan_x0, scan_x1, x_cur, x_last, frames_written, recExited,
                 convSpawned, recWire, probeCalls>>
  /\ UNCHANGED nonRecVars

\* `if _should_stop(): break`: _STOP is set ("signalled"), or the scanning
\* flag file no longer reads "1" ("stopped")
RecShouldStop ==
  /\ recPc = "loop"
  /\ recPc' = IF _STOP THEN "signalled" ELSE "stopped"
  /\ UNCHANGED <<scan_x0, scan_x1, x_cur, x_last, frames_written, _STOP, recExited,
                 convSpawned, recWire, probeCalls>>
  /\ UNCHANGED nonRecVars

\* get_position_axis("X") returned None: float(None) raises
RecNoPosition ==
  /\ recPc = "loop"
  /\ ~_STOP
  /\ recPc' = "aborted"
  /\ recWire' = recWire \cup {"M114"}
  /\ UNCHANGED <<scan_x0, scan_x1, x_cur, x_last, frames_written, _STOP, recExited,
                 convSpawned, probeCalls>>
  /\ UNCHANGED nonRecVars

\* one pass of the loop body with the position x read from M114; the head
\* travels from scan_x0 to scan_x1 and never back
\* (the loop as it runs when the recorder has a serial handle answering M114;
\* the handle of the recorder's own process is the subject of SpecProc)
RecPoll(x) ==
  /\ recPc = "loop"
  /\ ~_STOP
  /\ x_cur <= x /\ x <= scan_x1
  /\ x_cur' = x
  /\ IF x + SAVE_TOL >= scan_x1
       THEN /\ recPc' = "reached"
            /\ UNCHANGED <<x_last, frames_written>>
       ELSE /\ recPc' = "loop"
            /\ IF x - x_last >= E_R_EFF - SAVE_TOL
                 THEN LET steps == (x - x_last + SAVE_TOL) \div E_R_EFF
                      IN  /\ frames_written' = frames_written + Saved(steps)
                          /\ x_last' = x_last + steps * E_R_EFF
                 ELSE UNCHANGED <<x_last, frames_written>>
  /\ recWire' = recWire \cup {"M114"}
  /\ UNCHANGED <<scan_x0, scan_x1, _STOP, recExited, convSpawned, probeCalls>>
  /\ UNCHANGED nonRecVars

\* after the loop: the finally block calls Freeze_ultrasound_scanning,
\* Stop_ultrasound_scanning and Close_and_release; then
\* `if frames_written > 0 and not _STOP:` Popen imconv, write "0" to the
\* scanning flag and return
RecFinish ==
  /\ recPc \in {"signalled", "stopped", "aborted", "reached"}
  /\ ~recExited
  /\ probeCalls' = probeCalls \cup {"freeze", "stop", "close"}
  /\ convSpawned' = (frames_written > 0 /\ ~_STOP)
  /\ recExited' = TRUE
  /\ UNCHANGED <<recPc, scan_x0, scan_x1, x_cur, x_last, frames_written, _STOP, recWire>>
  /\ UNCHANGED nonRecVars

RecNext ==
  \/ \E r \in SdkResults : RecSdkInit(r)
  \/ RecSignal
  \/ RecShouldStop
  \/ RecNoPosition
  \/ \E x \in 0..MaxX : RecPoll(x)
  \/ RecFinish

(***************************************************************************)
(* The scanning flag.  One flow per run: "single" is one _start_scan,      *)
(* "multi" is _run_multisweep_sequence with its two sweeps.                *)
(***************************************************************************)
Sweeps == 1..MaxSweeps

\* the recorders of the flow's sweeps, and the one of a second request
Intruder == MaxSweeps + 1
Recorders == 1..Intruder

\* the relative Y jog before sweep n
YOffset(n) == IF n = 1 THEN -10 ELSE 20

ScanInit ==
  /\ scanning = 0
  /\ flow = "none"
  /\ mainPc = "idle"
  /\ sweep = 0
  /\ rec = [k \in Recorders |-> "none"]
  /\ imconv = [k \in Recorders |-> "none"]
  /\ stopReq = FALSE
  /\ intrPc = "idle"
  /\ scanplan = 0
  /\ trail = <<>>
  /\ multisweep = 0

\* /scanpath or /multipath arrives
FlowStart(f) ==
  /\ flow = "none" /\ ~stopReq
  /\ flow' = f
  /\ mainPc' = IF f = "multi" THEN "jog" ELSE "start"
  /\ UNCHANGED <<scanning, sweep, rec, imconv, stopReq>>
  /\ UNCHANGED <<intrPc, scanplan, trail, multisweep>>
  /\ UNCHANGED nonScanVars

\* _start_scan: _set_flag(scanning_f, "1"), _set_flag(multisweep_f, "1" if multi
\* else "0")
StartScanFlag ==
  /\ mainPc = "start"
  /\ scanning' = 1
  /\ multisweep' = IF flow = "multi" THEN 1 ELSE 0
  /\ sweep' = sweep + 1
  /\ mainPc' = "launch"
  /\ UNCHANGED <<flow, rec, imconv, stopReq>>
  /\ scanplan' = sweep + 1
  /\ trail' = Append(trail, [op |-> "sweep", n |-> sweep + 1])
  /\ UNCHANGED intrPc
  /\ UNCHANGED nonScanVars

\* _start_scan: go2StartScan, sleep, _launch_recorder
LaunchRecorder ==
  /\ mainPc = "launch"
  /\ rec' = [rec EXCEPT ![sweep] = "launched"]
  /\ mainPc' = "scanpath"
  /\ UNCHANGED <<scanning, flow, sweep, imconv, stopReq>>
  /\ UNCHANGED <<intrPc, scanplan, trail, multisweep>>
  /\ UNCHANGED nonScanVars

\* _start_scan: sleep, ScanPath, return; multisweep goes on to wait for the flag
ScanPathDone ==
  /\ mainPc = "scanpath"
  /\ mainPc' = IF flow = "multi" THEN "wait" ELSE "done"
  /\ UNCHANGED <<scanning, flow, sweep, rec, imconv, stopReq>>
  /\ UNCHANGED <<intrPc, scanplan, trail, multisweep>>
  /\ UNCHANGED nonScanVars

\* _run_multisweep_sequence: pssc.deltaMove(-10.0, "Y") before sweep 1,
\* pssc.deltaMove(+20.0, "Y") before sweep 2 (the result is not looked at)
YJog ==
  /\ mainPc = "jog"
  /\ trail' = Append(trail, [op |-> "jogY", n |-> YOffset(sweep + 1)])
  /\ mainPc' = "start"
  /\ UNCHANGED <<scanning, flow, sweep, rec, imconv, stopReq>>
  /\ UNCHANGED <<intrPc, scanplan, multisweep>>
  /\ UNCHANGED nonScanVars

\* _run_multisweep_sequence after the second wait: _latest_two_scan_dirs, then
\* Popen(multisweep.py) unless fewer than two scan folders exist
SpawnMerger(folders) ==
  /\ mainPc = "merge"
  /\ trail' = IF folders THEN Append(trail, [op |-> "merger", n |-> 0]) ELSE trail
  /\ mainPc' = "done"
  /\ UNCHANGED <<scanning, flow, sweep, rec, imconv, stopReq>>
  /\ UNCHANGED <<intrPc, scanplan, multisweep>>
  /\ UNCHANGED nonScanVars

\* _wait_until_not_scanning sees the flag differ from "1"
WaitNotScanning ==
  /\ mainPc = "wait"
  /\ scanning # 1
  /\ mainPc' = IF sweep < MaxSweeps THEN "jog" ELSE "merge"
  /\ trail' = Append(trail, [op |-> "cleared", n |-> sweep])
  /\ UNCHANGED <<scanning, flow, sweep, rec, imconv, stopReq>>
  /\ UNCHANGED <<intrPc, scanplan, multisweep>>
  /\ UNCHANGED nonScanVars

\* _wait_until_not_scanning times out: the sequence returns
WaitTimeout ==
  /\ mainPc = "wait"
  /\ scanning = 1
  /\ mainPc' = "done"
  /\ trail' = Append(trail, [op |-> "timeout", n |-> sweep])
  /\ UNCHANGED <<scanning, flow, sweep, rec, imconv, stopReq>>
  /\ UNCHANGED <<intrPc, scanplan, multisweep>>
  /\ UNCHANGED nonScanVars

\* record.main: SCANNING_FLAG_FILE.write_text("1")
RecSetFlag(k) ==
  /\ rec[k] = "launched"
  /\ scanning' = 1
  /\ rec' = [rec EXCEPT ![k] = "init"]
  /\ UNCHANGED <<flow, mainPc, sweep, imconv, stopReq>>
  /\ UNCHANGED <<intrPc, scanplan, trail, multisweep>>
  /\ UNCHANGED nonScanVars

\* the SDK failed to initialise: sys.exit before the loop, flag left alone
RecInitFail(k) ==
  /\ rec[k] = "init"
  /\ rec' = [rec EXCEPT ![k] = "done"]
  /\ UNCHANGED <<scanning, flow, mainPc, sweep, imconv, stopReq>>
  /\ UNCHANGED <<intrPc, scanplan, trail, multisweep>>
  /\ UNCHANGED nonScanVars

RecEnterLoop(k) ==
  /\ rec[k] = "init"
  /\ rec' = [rec EXCEPT ![k] = "loop"]
  /\ UNCHANGED <<scanning, flow, mainPc, sweep, imconv, stopReq>>
  /\ UNCHANGED <<intrPc, scanplan, trail, multisweep>>
  /\ UNCHANGED nonScanVars

\* the loop ends with frames on disk (then imconv is spawned unless _STOP is
\* set) or without any
RecLeaveLoop(k) ==
  /\ rec[k] = "loop"
  /\ \E frames \in BOOLEAN :
       /\ imconv' = [imconv EXCEPT ![k] = IF frames /\ ~stopReq THEN "running" ELSE @]
  /\ rec' = [rec EXCEPT ![k] = "clear"]
  /\ UNCHANGED <<scanning, flow, mainPc, sweep, stopReq>>
  /\ UNCHANGED <<intrPc, scanplan, trail, multisweep>>
  /\ UNCHANGED nonScanVars

\* record.main: SCANNING_FLAG_FILE.write_text("0")
RecClearFlag(k) ==
  /\ rec[k] = "clear"
  /\ scanning' = 0
  /\ rec' = [rec EXCEPT ![k] = "done"]
  /\ UNCHANGED <<flow, mainPc, sweep, imconv, stopReq>>
  /\ UNCHANGED <<intrPc, scanplan, trail, multisweep>>
  /\ UNCHANGED nonScanVars

\* imconv.main reaches its end: SCANNING_FLAG_FILE.write_text("0")
ImconvEnd(k) ==
  /\ imconv[k] = "running"
  /\ scanning' = 0
  /\ imconv' = [imconv EXCEPT ![k] = "done"]
  /\ UNCHANGED <<flow, mainPc, sweep, rec, stopReq>>
  /\ UNCHANGED <<intrPc, scanplan, trail, multisweep>>
  /\ UNCHANGED nonScanVars

\* _graceful_shutdown_async: both flags written "0", children terminated
Shutdown ==
  /\ ~stopReq
  /\ stopReq' = TRUE
  /\ scanning' = 0
  /\ multisweep' = 0
  /\ UNCHANGED <<flow, mainPc, sweep, rec, imconv>>
  /\ UNCHANGED <<intrPc, scanplan, trail>>
  /\ UNCHANGED nonScanVars

\* a second /scanpath request, served by another thread of the server, runs
\* _start_scan: flag written "1", its plan persisted
IntruderStart ==
  /\ intrPc = "idle" /\ ~stopReq
  /\ scanning' = 1
  /\ scanplan' = Intruder
  /\ intrPc' = "launch"
  /\ multisweep' = 0
  /\ UNCHANGED <<flow, mainPc, sweep, rec, imconv, stopReq, trail>>
  /\ UNCHANGED nonScanVars

\* ... and _launch_recorder
IntruderLaunch ==
  /\ intrPc = "launch"
  /\ rec' = [rec EXCEPT ![Intruder] = "launched"]
  /\ intrPc' = "done"
  /\ UNCHANGED <<scanning, flow, mainPc, sweep, imconv, stopReq, scanplan, trail, multisweep>>
  /\ UNCHANGED nonScanVars

ScanNext ==
  \/ \E f \in {"single", "multi"} : FlowStart(f)
  \/ YJog
  \/ StartScanFlag \/ LaunchRecorder \/ ScanPathDone \/ WaitNotScanning \/ WaitTimeout
  \/ \E folders \in BOOLEAN : SpawnMerger(folders)
  \/ IntruderStart \/ IntruderLaunch
  \/ \E k \in Recorders :
       RecSetFlag(k) \/ RecInitFail(k) \/ RecEnterLoop(k) \/ RecLeaveLoop(k)
         \/ RecClearFlag(k) \/ ImconvEnd(k)
  \/ Shutdown

(***************************************************************************)
(* E axis rotation: rotate_nozzle_clockwise / _counterclockwise with the   *)
(* persisted position, one action per statement.  The firmware answers     *)
(* every command it receives with one "ok" line, in order, at its own      *)
(* pace; an answer is tagged with the command and the call it belongs to.  *)
(* Angles are integers in quarters of 1e-6, so that a step finer than the  *)
(* six decimals of the file can be told from zero.                         *)
(***************************************************************************)
Quantum == 4                       \* 1e-6, the resolution of "{value:.6f}"
RotSteps == {0, 1, 4, 8}           \* step arguments: zero, a quarter of 1e-6, 1e-6, 2e-6
RotDirs == {1, -1}                 \* clockwise adds, counterclockwise subtracts

\* f"{value:.6f}" read back by float(): the nearest multiple of 1e-6
\* (a tie, which the steps above never produce, goes to the even multiple)
Fmt6(v) ==
  LET r == v % Quantum
      lo == v - r
  IN IF 2 * r < Quantum THEN lo
     ELSE IF 2 * r > Quantum THEN lo + Quantum
     ELSE IF (lo \div Quantum) % 2 = 0 THEN lo ELSE lo + Quantum

Ack(cmd) == [c |-> cmd, n |-> rotCalls]

RotInit ==
  /\ e_file = 0
  /\ rotPc = "idle"
  /\ rotStep = 0
  /\ rotDir = 1
  /\ rotE = 0
  /\ rotRet = "none"
  /\ rotPrev = 0
  /\ rotCalls = 0
  /\ rotLink = "up"
  /\ rotFaults = 0
  /\ fileFaults = 0
  /\ fwq = <<>>
  /\ inbuf = <<>>
  /\ resp = <<>>
  /\ eWrites = 0

\* send_now(cmd): written when the port is open, dropped otherwise
RotSendNow(cmd) ==
  fwq' = IF rotLink = "up" THEN Append(fwq, Ack(cmd)) ELSE fwq

\* the jog worker takes a rotate job and calls rotate_nozzle_*(step)
RotateCall(step, dir) ==
  /\ rotPc = "idle"
  /\ rotCalls < MaxRotCalls
  /\ rotCalls' = rotCalls + 1
  /\ rotStep' = step
  /\ rotDir' = dir
  /\ rotPrev' = e_file
  /\ rotRet' = "none"
  /\ eWrites' = 0
  /\ resp' = <<>>
  /\ rotPc' = "conn"
  /\ UNCHANGED <<e_file, rotE, rotLink, rotFaults, fileFaults, fwq, inbuf>>
  /\ UNCHANGED nonRotVars

\* _ensure_connected(): true when connected, else one connect_serial() attempt
RotEnsureConnected ==
  /\ rotPc = "conn"
  /\ \/ rotLink = "up" /\ rotPc' = "m302" /\ UNCHANGED <<rotLink, rotRet, fwq, inbuf>>
     \/ rotLink = "down" /\ rotLink' = "up" /\ fwq' = <<>> /\ inbuf' = <<>>
          /\ rotPc' = "m302" /\ UNCHANGED rotRet
     \/ rotLink = "down" /\ rotRet' = "fail" /\ rotPc' = "ret"
          /\ UNCHANGED <<rotLink, fwq, inbuf>>
  /\ UNCHANGED <<e_file, rotStep, rotDir, rotE, rotPrev, rotCalls, rotFaults,
                 fileFaults, resp, eWrites>>
  /\ UNCHANGED nonRotVars

\* _allow_cold_extrusion_if_needed(): send_now("M302 P1")
AllowColdExtrusion ==
  /\ rotPc = "m302"
  /\ RotSendNow("M302")
  /\ rotPc' = "read"
  /\ UNCHANGED <<e_file, rotStep, rotDir, rotE, rotRet, rotPrev, rotCalls, rotLink,
                 rotFaults, fileFaults, inbuf, resp, eWrites>>
  /\ UNCHANGED nonRotVars

\* e = _read_e_axis_position(0.0) +/- float(step)
ReadEAxisPosition ==
  /\ rotPc = "read"
  /\ rotE' = e_file + rotDir * rotStep
  /\ rotPc' = "g21"
  /\ UNCHANGED <<e_file, rotStep, rotDir, rotRet, rotPrev, rotCalls, rotLink,
                 rotFaults, fileFaults, fwq, inbuf, resp, eWrites>>
  /\ UNCHANGED nonRotVars

\* move_absolute: _ensure_units_and_absolute(), first write
EnsureUnits ==
  /\ rotPc = "g21"
  /\ RotSendNow("G21")
  /\ rotPc' = "g90"
  /\ UNCHANGED <<e_file, rotStep, rotDir, rotE, rotRet, rotPrev, rotCalls, rotLink,
                 rotFaults, fileFaults, inbuf, resp, eWrites>>
  /\ UNCHANGED nonRotVars

\* move_absolute: _ensure_units_and_absolute(), second write
EnsureAbsolute ==
  /\ rotPc = "g90"
  /\ RotSendNow("G90")
  /\ rotPc' = "g0"
  /\ UNCHANGED <<e_file, rotStep, rotDir, rotE, rotRet, rotPrev, rotCalls, rotLink,
                 rotFaults, fileFaults, inbuf, resp, eWrites>>
  /\ UNCHANGED nonRotVars

\* move_absolute: send_gcode("G0 E..."): refused without a port, else the queue
\* worker writes the command and opens its read window
SendGcodeG0E ==
  /\ rotPc = "g0"
  /\ \/ rotLink = "up" /\ fwq' = Append(fwq, Ack("G0")) /\ rotPc' = "window"
     \/ rotLink = "down" /\ fwq' = fwq /\ rotPc' = "judge"
  /\ UNCHANGED <<e_file, rotStep, rotDir, rotE, rotRet, rotPrev, rotCalls, rotLink,
                 rotFaults, fileFaults, inbuf, resp, eWrites>>
  /\ UNCHANGED nonRotVars

\* the firmware answers the oldest command it has not answered yet
FirmwareAck ==
  /\ rotLink = "up"
  /\ fwq # <<>>
  /\ inbuf' = Append(inbuf, Head(fwq))
  /\ fwq' = Tail(fwq)
  /\ UNCHANGED <<e_file, rotPc, rotStep, rotDir, rotE, rotRet, rotPrev, rotCalls,
                 rotLink, rotFaults, fileFaults, resp, eWrites>>
  /\ UNCHANGED nonRotVars

\* the device drops off the bus: nothing more is answered or read
RotLinkDrop ==
  /\ rotLink = "up"
  /\ rotFaults < MaxRotFaults
  /\ rotFaults' = rotFaults + 1
  /\ rotLink' = "down"
  /\ UNCHANGED <<e_file, rotPc, rotStep, rotDir, rotE, rotRet, rotPrev, rotCalls,
                 fileFaults, fwq, inbuf, resp, eWrites>>
  /\ UNCHANGED nonRotVars

\* _process_queue read window: one waiting line is read and appended
WindowReadLine ==
  /\ rotPc = "window"
  /\ rotLink = "up"
  /\ inbuf # <<>>
  /\ resp' = Append(resp, Head(inbuf))
  /\ inbuf' = Tail(inbuf)
  /\ UNCHANGED <<e_file, rotPc, rotStep, rotDir, rotE, rotRet, rotPrev, rotCalls,
                 rotLink, rotFaults, fileFaults, fwq, eWrites>>
  /\ UNCHANGED nonRotVars

\* _process_queue read window: no line for SERIAL_READ_WINDOW_S, or a read error
\* (lines = []); the callback hands the lines to send_gcode
WindowEnd ==
  /\ rotPc = "window"
  /\ \/ rotLink = "up" /\ inbuf = <<>> /\ resp' = resp
     \/ rotLink = "down" /\ resp' = <<>>
  /\ rotPc' = "judge"
  /\ UNCHANGED <<e_file, rotStep, rotDir, rotE, rotRet, rotPrev, rotCalls, rotLink,
                 rotFaults, fileFaults, fwq, inbuf, eWrites>>
  /\ UNCHANGED nonRotVars

\* move_absolute returns any("ok" in ln.lower() for ln in resp); every answer
\* of the firmware is an "ok" line
MoveAbsoluteReturn ==
  /\ rotPc = "judge"
  /\ \/ resp # <<>> /\ rotPc' = "persist" /\ UNCHANGED rotRet
     \/ resp = <<>> /\ rotRet' = "fail" /\ rotPc' = "ret"
  /\ UNCHANGED <<e_file, rotStep, rotDir, rotE, rotPrev, rotCalls, rotLink,
                 rotFaults, fileFaults, fwq, inbuf, resp, eWrites>>
  /\ UNCHANGED nonRotVars

\* _write_e_axis_position(e); return True: a failed write is only logged
WriteEAxisPosition ==
  /\ rotPc = "persist"
  /\ \/ e_file' = Fmt6(rotE) /\ eWrites' = eWrites + 1 /\ UNCHANGED fileFaults
     \/ fileFaults < MaxFileFaults /\ fileFaults' = fileFaults + 1
          /\ UNCHANGED <<e_file, eWrites>>
  /\ rotRet' = "ok"
  /\ rotPc' = "ret"
  /\ UNCHANGED <<rotStep, rotDir, rotE, rotPrev, rotCalls, rotLink, rotFaults,
                 fwq, inbuf, resp>>
  /\ UNCHANGED nonRotVars

\* the call returns to the jog worker, which waits for the next job
RotateReturn ==
  /\ rotPc = "ret"
  /\ rotPc' = "idle"
  /\ UNCHANGED <<e_file, rotStep, rotDir, rotE, rotRet, rotPrev, rotCalls, rotLink,
                 rotFaults, fileFaults, fwq, inbuf, resp, eWrites>>
  /\ UNCHANGED nonRotVars

RotNext ==
  \/ \E step \in RotSteps, dir \in RotDirs : RotateCall(step, dir)
  \/ RotEnsureConnected
  \/ AllowColdExtrusion
  \/ ReadEAxisPosition
  \/ EnsureUnits
  \/ EnsureAbsolute
  \/ SendGcodeG0E
  \/ FirmwareAck
  \/ RotLinkDrop
  \/ WindowReadLine
  \/ WindowEnd
  \/ MoveAbsoluteReturn
  \/ WriteEAxisPosition
  \/ RotateReturn

(***************************************************************************)
(* Jog queue: move_probe puts jobs into _JOG_Q, the one _jog_worker thread *)
(* takes them out and runs jog_once for each under _UI_MODE_LOCK.  A job   *)
(* is named by its arrival number.                                         *)
(***************************************************************************)
JOG_Q_MAXSIZE == 64
Directions == {"Xplus", "rotateClockwise", "bogus"}
Allowed == {"Xplus", "rotateClockwise"}
Rotations == {"rotateClockwise"}

JogInit ==
  /\ jogq = <<>>
  /\ jogArr = 0
  /\ jogReply = "none"
  /\ lastRotate = "none"
  /\ rotActive = FALSE
  /\ jogPc = "get"
  /\ jogCur = 0
  /\ jogDone = <<>>

\* a capacity test that is off by one: the variant of JogFull under which
\* C16_JogQueue fails
JogFullOffByOne(q) == Len(q) > JOG_Q_MAXSIZE

\* queue.Queue.put_nowait raises queue.Full when qsize() >= maxsize
JogFull(q) == Len(q) >= JOG_Q_MAXSIZE

\* POST /move_probe
move_probe(direction) ==
  /\ jogArr < MaxJobs
  /\ \/ /\ direction \notin Allowed
        /\ jogReply' = "invalid"
        /\ UNCHANGED <<jogq, jogArr, lastRotate>>
     \/ /\ direction \in Rotations
        /\ lastRotate = direction          \* and less than 0.25 s ago
        /\ jogReply' = "duplicate-ignored"
        /\ UNCHANGED <<jogq, jogArr, lastRotate>>
     \/ /\ direction \in Rotations
        /\ rotActive
        /\ lastRotate' = direction
        /\ jogReply' = "rotation-active"
        /\ UNCHANGED <<jogq, jogArr>>
     \/ /\ direction \in Allowed
        /\ direction \in Rotations => ~rotActive
        /\ lastRotate' = IF direction \in Rotations THEN direction ELSE lastRotate
        /\ IF JogFull(jogq)
             THEN jogReply' = "full" /\ UNCHANGED <<jogq, jogArr>>
             ELSE /\ jogq' = Append(jogq, jogArr + 1)
                  /\ jogArr' = jogArr + 1
                  /\ jogReply' = "queued"
  /\ UNCHANGED <<rotActive, jogPc, jogCur, jogDone>>
  /\ UNCHANGED nonJogVars

\* a continuous rotate worker enters or leaves the registry
RotateRegistryChange ==
  /\ rotActive' = ~rotActive
  /\ UNCHANGED <<jogq, jogArr, jogReply, lastRotate, jogPc, jogCur, jogDone>>
  /\ UNCHANGED nonJogVars

\* _jog_worker: direction, step = _JOG_Q.get()
JogGet ==
  /\ jogPc = "get"
  /\ jogq # <<>>
  /\ jogCur' = jogq[QueueGet(jogq)]
  /\ jogq' = RemoveAt(jogq, QueueGet(jogq))
  /\ jogPc' = "run"
  /\ UNCHANGED <<jogArr, jogReply, lastRotate, rotActive, jogDone>>
  /\ UNCHANGED nonJogVars

\* _jog_worker: with _UI_MODE_LOCK: pssc.jog_once(direction, step)
JogRun ==
  /\ jogPc = "run"
  /\ jogDone' = Append(jogDone, jogCur)
  /\ jogPc' = "done"
  /\ UNCHANGED <<jogq, jogArr, jogReply, lastRotate, rotActive, jogCur>>
  /\ UNCHANGED nonJogVars

\* _jog_worker: finally: _JOG_Q.task_done()
JogTaskDone ==
  /\ jogPc = "done"
  /\ jogCur' = 0
  /\ jogPc' = "get"
  /\ UNCHANGED <<jogq, jogArr, jogReply, lastRotate, rotActive, jogDone>>
  /\ UNCHANGED nonJogVars

JogNext ==
  \/ \E direction \in Directions : move_probe(direction)
  \/ RotateRegistryChange
  \/ JogGet
  \/ JogRun
  \/ JogTaskDone

(***************************************************************************)
(* Registry of the continuous-move workers: _start_ui_continuous_move run  *)
(* by concurrent request threads, the exit of a worker, and                *)
(* _stop_ui_continuous_move.  What a worker writes is modelled in the mode *)
(* part; here a worker only runs, ends, and removes its registry entry.    *)
(***************************************************************************)
Keys == {"X+", "rotateClockwise"}
Handlers == {"h1", "h2"}
WorkerIds == 1..MaxWorkers
NoWorker == [key |-> "none", st |-> "none", flag |-> FALSE]

RegInit ==
  /\ registry = [k \in Keys |-> 0]
  /\ moveLock = "free"
  /\ hPc = [h \in Handlers |-> "idle"]
  /\ hKey = [h \in Handlers |-> "X+"]
  /\ hRet = [h \in Handlers |-> "none"]
  /\ workers = [w \in WorkerIds |-> NoWorker]
  /\ nextW = 0
  /\ lastWriter = 0
  /\ regStopPc = "idle"

\* a lock that never makes a thread wait: the variant of CanAcquire under which
\* C17_OneWorkerPerKey fails
CanAcquireAlways(l) == TRUE

\* `with _UI_MOVE_LOCK:` is entered only when no thread holds the lock
CanAcquire(l) == l = "free"

\* _start_ui_continuous_move: key computed, `with _UI_MOVE_LOCK:` entered
StartAcquire(h, k) ==
  /\ hPc[h] = "idle"
  /\ nextW < MaxWorkers
  /\ CanAcquire(moveLock)
  /\ moveLock' = h
  /\ hKey' = [hKey EXCEPT ![h] = k]
  /\ hRet' = [hRet EXCEPT ![h] = "none"]
  /\ hPc' = [hPc EXCEPT ![h] = "check"]
  /\ UNCHANGED <<registry, workers, nextW, lastWriter, regStopPc>>
  /\ UNCHANGED nonRegVars

\* `if key in _UI_MOVE_THREADS: return False`
StartCheck(h) ==
  /\ hPc[h] = "check"
  /\ IF registry[hKey[h]] # 0
       THEN /\ hRet' = [hRet EXCEPT ![h] = "rejected"]
            /\ hPc' = [hPc EXCEPT ![h] = "idle"]
            /\ moveLock' = "free"
       ELSE /\ hPc' = [hPc EXCEPT ![h] = "insert"]
            /\ UNCHANGED <<hRet, moveLock>>
  /\ UNCHANGED <<registry, hKey, workers, nextW, lastWriter, regStopPc>>
  /\ UNCHANGED nonRegVars

\* `_UI_MOVE_THREADS[key] = (t, stop_flag); t.start(); return True`
StartInsert(h) ==
  /\ hPc[h] = "insert"
  /\ nextW < MaxWorkers
  /\ nextW' = nextW + 1
  /\ workers' = [workers EXCEPT ![nextW + 1] =
                   [key |-> hKey[h], st |-> "run", flag |-> FALSE]]
  /\ registry' = [registry EXCEPT ![hKey[h]] = nextW + 1]
  /\ hRet' = [hRet EXCEPT ![h] = "started"]
  /\ hPc' = [hPc EXCEPT ![h] = "idle"]
  /\ moveLock' = "free"
  /\ UNCHANGED <<hKey, lastWriter, regStopPc>>
  /\ UNCHANGED nonRegVars

\* _worker: a send_now of the running worker
WorkerWrite(w) ==
  /\ workers[w].st = "run"
  /\ lastWriter # w
  /\ lastWriter' = w
  /\ UNCHANGED <<registry, moveLock, hPc, hKey, hRet, workers, nextW, regStopPc>>
  /\ UNCHANGED nonRegVars

\* _worker: the body ends: stop flag seen, setup or write failure, max_run
WorkerEnd(w) ==
  /\ workers[w].st = "run"
  /\ workers' = [workers EXCEPT ![w].st = "fin"]
  /\ UNCHANGED <<registry, moveLock, hPc, hKey, hRet, nextW, lastWriter, regStopPc>>
  /\ UNCHANGED nonRegVars

\* _worker: `finally: with _UI_MOVE_LOCK: _UI_MOVE_THREADS.pop(key, None)`
WorkerPop(w) ==
  /\ workers[w].st = "fin"
  /\ CanAcquire(moveLock)
  /\ registry' = [registry EXCEPT ![workers[w].key] = 0]
  /\ workers' = [workers EXCEPT ![w].st = "gone"]
  /\ UNCHANGED <<moveLock, hPc, hKey, hRet, nextW, lastWriter, regStopPc>>
  /\ UNCHANGED nonRegVars

\* _stop_ui_continuous_move(action | None): under the lock, set the stop flag of
\* every targeted entry
RegStopFlags(ks) ==
  /\ regStopPc = "idle"
  /\ CanAcquire(moveLock)
  /\ workers' = [w \in WorkerIds |->
                   IF \E k \in ks : registry[k] = w
                     THEN [workers[w] EXCEPT !.flag = TRUE]
                     ELSE workers[w]]
  /\ regStopPc' = "g90"
  /\ UNCHANGED <<registry, moveLock, hPc, hKey, hRet, nextW, lastWriter>>
  /\ UNCHANGED nonRegVars

\* _stop_ui_continuous_move: send_now("G90") after the lock is released
RegStopG90 ==
  /\ regStopPc = "g90"
  /\ lastWriter' = 0
  /\ regStopPc' = "idle"
  /\ UNCHANGED <<registry, moveLock, hPc, hKey, hRet, workers, nextW>>
  /\ UNCHANGED nonRegVars

RegNext ==
  \/ \E h \in Handlers, k \in Keys : StartAcquire(h, k)
  \/ \E h \in Handlers : StartCheck(h)
  \/ \E h \in Handlers : StartInsert(h)
  \/ \E w \in WorkerIds : WorkerWrite(w)
  \/ \E w \in WorkerIds : WorkerEnd(w)
  \/ \E w \in WorkerIds : WorkerPop(w)
  \/ \E ks \in {{"X+"}, {"rotateClockwise"}, Keys} : RegStopFlags(ks)
  \/ RegStopG90

(***************************************************************************)
(* Scan plan: /scanpath and /multipath parse start, end and mode, persist  *)
(* the plan and hand it to the recorder, which resolves its range again.   *)
(* json.dumps / str and float() carry a float unchanged, so the file and   *)
(* the environment hold the numbers as computed.  Lengths in half          *)
(* millimetres.                                                            *)
(***************************************************************************)
MIN_SPAN == 2                       \* the 1.0 of `s + 1.0` / `x0 + 1.0`
SHORT_X0 == 30                      \* 15.0
SHORT_X1 == 180                     \* 90.0
XInputs == {-10, 0, 30, 180, 235, 236, 400}
ModeInputs == {"", "short", "long", "custom", "fast"}

ClampX(v) == Max(0, Min(X_MAX, v))

\* _normalize_x_range without the clamp of the forced forward span
_normalize_x_range_open(start, end) ==
  LET s == ClampX(start)
      e == ClampX(end)
  IN <<s, IF e <= s THEN s + MIN_SPAN ELSE e>>

\* main._normalize_x_range
_normalize_x_range(start, end) ==
  LET s == ClampX(start)
      e == ClampX(end)
  IN <<s, IF e <= s THEN Min(X_MAX, s + MIN_SPAN) ELSE e>>

\* main._parse_scan_query: (x0, x1, mode)
_parse_scan_query(start, end, given, mode) ==
  LET have == given = "both"
      s == IF have THEN ClampX(start) ELSE IF mode = "short" THEN SHORT_X0 ELSE 0
      e == IF have THEN ClampX(end)
           ELSE IF mode = "short" THEN Min(SHORT_X1, X_MAX) ELSE X_MAX
      m == IF ~have /\ mode \notin {"short", "long", ""} THEN "long" ELSE mode
      r == _normalize_x_range(s, e)
      m2 == IF m \in {"long", "short", "custom"} THEN m
            ELSE IF r[1] = 0 /\ r[2] = X_MAX THEN "long"
            ELSE IF r[1] = SHORT_X0 /\ r[2] = Min(SHORT_X1, X_MAX) THEN "short"
            ELSE "custom"
  IN <<r[1], r[2], m2>>

\* record._read_scan_plan: file, then the environment pair, clamp, forward span
_read_scan_plan(fx0, fx1, ex0, ex1) ==
  LET x0 == ClampX(ex0)
      x1 == ClampX(ex1)
  IN <<x0, IF x1 <= x0 THEN Min(X_MAX, x0 + MIN_SPAN) ELSE x1>>

PlanInit ==
  /\ planPc = "idle"
  /\ planRoute = "scanpath"
  /\ reqMode = ""
  /\ env_mode = "custom"
  /\ reqStart = 0
  /\ reqEnd = X_MAX
  /\ reqGiven = "none"
  /\ plan_x0 = 0
  /\ plan_x1 = X_MAX
  /\ plan_mode = "long"
  /\ env_x0 = 0
  /\ env_x1 = X_MAX
  /\ res_x0 = 0
  /\ res_x1 = X_MAX

\* _start_scan(multi, start_x, end_x) up to _persist_scanplan
PersistPlan(sx, ex, have) ==
  LET r == IF have THEN _normalize_x_range(sx, ex) ELSE <<0, X_MAX>>
  IN /\ plan_x0' = r[1]
     /\ plan_x1' = r[2]
     /\ plan_mode' = IF have /\ ~(r[1] = 0 /\ r[2] = X_MAX) THEN "custom" ELSE "long"

\* GET /scanpath?start=&end=&mode=
scanpath(start, end, given, mode) ==
  /\ planPc = "idle"
  /\ reqStart' = start
  /\ reqEnd' = end
  /\ reqGiven' = given
  /\ LET q == _parse_scan_query(start, end, given, mode)
     IN PersistPlan(q[1], q[2], TRUE)
  /\ planPc' = "persisted"
  /\ planRoute' = "scanpath"
  /\ reqMode' = mode
  /\ UNCHANGED <<env_x0, env_x1, env_mode, res_x0, res_x1>>
  /\ UNCHANGED nonPlanVars

\* /multipath: `_get("start") or _get("x0")` takes 0.0 for a missing value; a
\* range with end <= start is refused with 400
multipath(start, end, given, mode) ==
  /\ planPc = "idle"
  /\ reqStart' = start
  /\ reqEnd' = end
  /\ reqGiven' = given
  /\ LET sOk == given = "both" /\ ClampX(start) # 0
         eOk == given = "both" /\ ClampX(end) # 0
         preset == ~(sOk /\ eOk) /\ mode \in {"long", "short"}
         have == (sOk /\ eOk) \/ preset
         s == IF preset THEN (IF mode = "short" THEN SHORT_X0 ELSE 0) ELSE ClampX(start)
         e == IF preset THEN (IF mode = "short" THEN Min(SHORT_X1, X_MAX) ELSE X_MAX)
              ELSE ClampX(end)
     IN IF have /\ e <= s
          THEN planPc' = "refused" /\ UNCHANGED <<plan_x0, plan_x1, plan_mode>>
          ELSE planPc' = "persisted" /\ PersistPlan(s, e, have)
  /\ planRoute' = "multipath"
  /\ reqMode' = mode
  /\ UNCHANGED <<env_x0, env_x1, env_mode, res_x0, res_x1>>
  /\ UNCHANGED nonPlanVars

\* _start_scan: _launch_recorder(multi, x0, x1, pos_str) sets SCAN_X0 / SCAN_X1
\* and SCAN_MODE
LaunchWithPlan ==
  /\ planPc = "persisted"
  /\ env_x0' = plan_x0
  /\ env_x1' = plan_x1
  /\ env_mode' = "custom"
  /\ planPc' = "launched"
  /\ UNCHANGED <<planRoute, reqMode, reqStart, reqEnd, reqGiven, plan_x0, plan_x1, plan_mode, res_x0, res_x1>>
  /\ UNCHANGED nonPlanVars

\* record.main: scan_x0, scan_x1, scan_mode = _read_scan_plan()
ResolvePlan ==
  /\ planPc = "launched"
  /\ LET r == _read_scan_plan(plan_x0, plan_x1, env_x0, env_x1)
     IN res_x0' = r[1] /\ res_x1' = r[2]
  /\ planPc' = "resolved"
  /\ UNCHANGED <<planRoute, reqMode, env_mode, reqStart, reqEnd, reqGiven, plan_x0, plan_x1,
                 plan_mode, env_x0, env_x1>>
  /\ UNCHANGED nonPlanVars

\* the request is over; the next one may come
PlanDone ==
  /\ planPc \in {"resolved", "refused"}
  /\ planPc' = "idle"
  /\ UNCHANGED <<planRoute, reqMode, env_mode, reqStart, reqEnd, reqGiven, plan_x0, plan_x1,
                 plan_mode, env_x0, env_x1, res_x0, res_x1>>
  /\ UNCHANGED nonPlanVars

PlanNext ==
  \/ \E start \in XInputs, end \in XInputs, given \in {"both", "none"},
        mode \in ModeInputs : scanpath(start, end, given, mode)
  \/ \E start \in XInputs, end \in XInputs, given \in {"both", "none"},
        mode \in ModeInputs : multipath(start, end, given, mode)
  \/ LaunchWithPlan
  \/ ResolvePlan
  \/ PlanDone

(***************************************************************************)
(* Shutdown: /api/exit and /shutdown start _graceful_shutdown_async in a   *)
(* thread; one action per numbered step of the function.  Before it, scans *)
(* spawn recorder processes and buttons or keys start continuous workers.  *)
(***************************************************************************)
Children == 1..MaxChildren
ContKinds == {"X+", "kbd"}

ShutInit ==
  /\ shPc = "idle"
  /\ shLog = <<>>
  /\ child = [c \in Children |-> "none"]
  /\ flagFile = 0
  /\ shSerial = "open"
  /\ probe = "live"
  /\ contWorkers = {}
  /\ signalled = {}

\* _start_scan / _launch_recorder: flag "1", Popen, _CHILD_PROCS.append(proc)
SpawnChild(c) ==
  /\ shPc = "idle"
  /\ child[c] = "none"
  /\ child' = [child EXCEPT ![c] = "alive"]
  /\ flagFile' = 1
  /\ UNCHANGED <<shPc, shLog, shSerial, probe, contWorkers, signalled>>
  /\ UNCHANGED nonShutVars

\* a recorder ends by itself (flag "0" at its exit); one that was sent SIGTERM
\* ends as well
ChildExit(c) ==
  /\ child[c] \in {"alive", "terminating"}
  /\ child' = [child EXCEPT ![c] = IF @ = "alive" THEN "exited" ELSE "dead"]
  /\ flagFile' = 0
  /\ UNCHANGED <<shPc, shLog, shSerial, probe, contWorkers, signalled>>
  /\ UNCHANGED nonShutVars

\* _start_ui_continuous_move starts a worker thread; the keyboard listener
\* starts its own
ContStart(w) ==
  /\ shPc = "idle"
  /\ w \notin contWorkers
  /\ contWorkers' = contWorkers \cup {w}
  /\ UNCHANGED <<shPc, shLog, child, flagFile, shSerial, probe, signalled>>
  /\ UNCHANGED nonShutVars

\* api_exit / shutdown_alias: the thread starts; _APP_SHUTTING_DOWN = True
ShutdownStart ==
  /\ shPc = "idle"
  /\ shPc' = "flag"
  /\ UNCHANGED <<shLog, child, flagFile, shSerial, probe, contWorkers, signalled>>
  /\ UNCHANGED nonShutVars

\* 0) Config.SCANNING_FLAG_FILE.write_text("0"), a failure is passed over
ShFlag(ok) ==
  /\ shPc = "flag"
  /\ flagFile' = IF ok THEN 0 ELSE flagFile
  /\ shLog' = Append(shLog, "flag")
  /\ shPc' = "keyboard"
  /\ UNCHANGED <<child, shSerial, probe, contWorkers, signalled>>
  /\ UNCHANGED nonShutVars

\* 1) enable_keyboard(False), keyboard.unhook_all(): only the keyboard worker
\* is told to stop; _stop_ui_continuous_move is not called
ShKeyboard ==
  /\ shPc = "keyboard"
  /\ signalled' = signalled \cup (contWorkers \cap {"kbd"})
  /\ shLog' = Append(shLog, "workers")
  /\ shPc' = "probe"
  /\ UNCHANGED <<child, flagFile, shSerial, probe, contWorkers>>
  /\ UNCHANGED nonShutVars

\* 2) ultrasound_sdk.freeze(), stop(), close(); 3) camera.release()
ShProbe ==
  /\ shPc = "probe"
  /\ probe' = "closed"
  /\ shLog' = Append(shLog, "probe")
  /\ shPc' = "serial"
  /\ UNCHANGED <<child, flagFile, shSerial, contWorkers, signalled>>
  /\ UNCHANGED nonShutVars

\* 4) close_serial()
ShSerial ==
  /\ shPc = "serial"
  /\ shSerial' = "closed"
  /\ shLog' = Append(shLog, "serial")
  /\ shPc' = "terminate"
  /\ UNCHANGED <<child, flagFile, probe, contWorkers, signalled>>
  /\ UNCHANGED nonShutVars

\* 5) _terminate_children: proc.terminate() for every process still running
ShTerminate ==
  /\ shPc = "terminate"
  /\ child' = [c \in Children |-> IF child[c] = "alive" THEN "terminating" ELSE child[c]]
  /\ shLog' = Append(shLog, "terminate")
  /\ shPc' = "grace"
  /\ UNCHANGED <<flagFile, shSerial, probe, contWorkers, signalled>>
  /\ UNCHANGED nonShutVars

\* ... up to 1.5 s of polling, then proc.kill() for every process still running
ShKill ==
  /\ shPc = "grace"
  /\ child' = [c \in Children |-> IF child[c] = "terminating" THEN "dead" ELSE child[c]]
  /\ shLog' = Append(shLog, "kill")
  /\ shPc' = "flags"
  /\ UNCHANGED <<flagFile, shSerial, probe, contWorkers, signalled>>
  /\ UNCHANGED nonShutVars

\* 6) both flag files written "0"; 7) the window is closed; os._exit(0) in the
\* finally ends every thread of the process
ShExit ==
  /\ shPc = "flags"
  /\ flagFile' = 0
  /\ contWorkers' = {}
  /\ shLog' = Append(shLog, "exit")
  /\ shPc' = "exited"
  /\ UNCHANGED <<child, shSerial, probe, signalled>>
  /\ UNCHANGED nonShutVars

ShutNext ==
  \/ \E c \in Children : SpawnChild(c)
  \/ \E c \in Children : ChildExit(c)
  \/ \E w \in ContKinds : ContStart(w)
  \/ ShutdownStart
  \/ \E ok \in BOOLEAN : ShFlag(ok)
  \/ ShKeyboard
  \/ ShProbe
  \/ ShSerial
  \/ ShTerminate
  \/ ShKill
  \/ ShExit

(***************************************************************************)
(* Ultrasound live stream: each subscriber runs one generate_image         *)
(* generator on the shared _UltrasoundDLL singleton.  A call into the      *)
(* vendor DLL fails while the vendor is down (an error code during the     *)
(* initialisation sequence, an exception elsewhere) and succeeds while it  *)
(* is up; the vendor goes down and comes back at any moment.               *)
(***************************************************************************)
Gens == 1..MaxStreams

SdkInit ==
  /\ vendor = "ok"
  /\ sdkInit = FALSE
  /\ dllLoaded = FALSE
  /\ genPc = [g \in Gens |-> "top"]
  /\ lastFrame = [g \in Gens |-> "none"]
  /\ vendorErr = [g \in Gens |-> FALSE]
  /\ backoffTry = [g \in Gens |-> 0]

VendorDown ==
  /\ vendor = "ok"
  /\ vendor' = "down"
  /\ UNCHANGED <<sdkInit, dllLoaded, genPc, lastFrame, vendorErr, backoffTry>>
  /\ UNCHANGED nonSdkVars

VendorUp ==
  /\ vendor = "down"
  /\ vendor' = "ok"
  /\ UNCHANGED <<sdkInit, dllLoaded, genPc, lastFrame, vendorErr, backoffTry>>
  /\ UNCHANGED nonSdkVars

\* _attempt_init under the lock: every step succeeded, or one failed; a failed
\* data_view_function returns with the library still loaded (keep), the other
\* failures release it
_attempt_init(keep) ==
  IF vendor = "ok" THEN /\ sdkInit' = TRUE
                        /\ dllLoaded' = TRUE
  ELSE /\ sdkInit' = FALSE
       /\ dllLoaded' = keep

\* ensure_ready: True at once when initialised, else one _attempt_init
ensure_ready(keep) ==
  IF sdkInit THEN UNCHANGED <<sdkInit, dllLoaded>> ELSE _attempt_init(keep)

\* generate_image, top of the loop: ensure_ready(); not ready: yield the
\* placeholder and enter _reconnect_with_backoff
GenTop(g, keep) ==
  /\ genPc[g] = "top"
  /\ ensure_ready(keep)
  /\ vendorErr' = [vendorErr EXCEPT ![g] = ~sdkInit /\ vendor = "down"]
  /\ IF sdkInit'
       THEN /\ genPc' = [genPc EXCEPT ![g] = "grab"]
            /\ UNCHANGED lastFrame
       ELSE /\ genPc' = [genPc EXCEPT ![g] = "backoff"]
            /\ lastFrame' = [lastFrame EXCEPT ![g] = "placeholder"]
  /\ backoffTry' = [backoffTry EXCEPT ![g] = 0]
  /\ UNCHANGED vendor
  /\ UNCHANGED nonSdkVars

\* _reconnect_with_backoff(5.0): one pass of its loop (sleep, _attempt_init
\* under the lock unless another thread initialised meanwhile); the loop ends on
\* success or when the time budget is used up
GenBackoff(g, keep) ==
  /\ genPc[g] = "backoff"
  /\ ensure_ready(keep)
  /\ vendorErr' = [vendorErr EXCEPT ![g] = ~sdkInit /\ vendor = "down"]
  /\ IF sdkInit' \/ backoffTry[g] + 1 >= MaxBackoff
       THEN /\ genPc' = [genPc EXCEPT ![g] = "top"]
            /\ backoffTry' = [backoffTry EXCEPT ![g] = 0]
       ELSE /\ backoffTry' = [backoffTry EXCEPT ![g] = @ + 1]
            /\ UNCHANGED genPc
  /\ UNCHANGED <<vendor, lastFrame>>
  /\ UNCHANGED nonSdkVars

\* reset(): freeze, stop, close with every error passed over, then _dll = None,
\* _initialized = False
SdkReset ==
  /\ sdkInit' = FALSE
  /\ dllLoaded' = FALSE

\* generate_image: dll = inst.dll; dll.return_pixel_values(...); an exception
\* (also the None left by another generator's reset) goes to the handler, which
\* calls inst.reset()
GenPixels(g) ==
  /\ genPc[g] = "grab"
  /\ IF vendor = "ok" /\ dllLoaded
       THEN /\ genPc' = [genPc EXCEPT ![g] = "res"]
            /\ vendorErr' = [vendorErr EXCEPT ![g] = FALSE]
            /\ UNCHANGED <<sdkInit, dllLoaded>>
       ELSE /\ genPc' = [genPc EXCEPT ![g] = "errloop"]
            /\ vendorErr' = [vendorErr EXCEPT ![g] = vendor = "down"]
            /\ SdkReset
  /\ UNCHANGED <<vendor, lastFrame, backoffTry>>
  /\ UNCHANGED nonSdkVars

\* generate_image: dll.get_resolution(...) inside its own try / except: pass,
\* then flip, overlay, imencode and yield
GenResolution(g) ==
  /\ genPc[g] = "res"
  /\ vendorErr' = [vendorErr EXCEPT ![g] = vendor = "down"]
  /\ lastFrame' = [lastFrame EXCEPT ![g] = "real"]
  /\ genPc' = [genPc EXCEPT ![g] = "top"]
  /\ UNCHANGED <<vendor, sdkInit, dllLoaded, backoffTry>>
  /\ UNCHANGED nonSdkVars

\* the handler's loop: while less than 3 s have passed and not ensure_ready():
\* yield the placeholder, sleep
GenErrLoop(g, keep, timeup) ==
  /\ genPc[g] = "errloop"
  /\ IF timeup
       THEN /\ genPc' = [genPc EXCEPT ![g] = "top"]
            /\ UNCHANGED <<sdkInit, dllLoaded, lastFrame>>
            /\ vendorErr' = [vendorErr EXCEPT ![g] = FALSE]
       ELSE /\ ensure_ready(keep)
            /\ vendorErr' = [vendorErr EXCEPT ![g] = ~sdkInit /\ vendor = "down"]
            /\ IF sdkInit'
                 THEN /\ genPc' = [genPc EXCEPT ![g] = "top"]
                      /\ UNCHANGED lastFrame
                 ELSE /\ lastFrame' = [lastFrame EXCEPT ![g] = "placeholder"]
                      /\ UNCHANGED genPc
  /\ UNCHANGED <<vendor, backoffTry>>
  /\ UNCHANGED nonSdkVars

SdkNext ==
  \/ VendorDown
  \/ VendorUp
  \/ \E g \in Gens, keep \in BOOLEAN : GenTop(g, keep)
  \/ \E g \in Gens, keep \in BOOLEAN : GenBackoff(g, keep)
  \/ \E g \in Gens : GenPixels(g)
  \/ \E g \in Gens : GenResolution(g)
  \/ \E g \in Gens, keep \in BOOLEAN, timeup \in BOOLEAN : GenErrLoop(g, keep, timeup)

(***************************************************************************)
(* go2INIT: home, move to X0 Y0 Z10, move to the centre, verify.  One      *)
(* action per call it makes; send_now writes when the connection is up,    *)
(* the barrier and the position poll succeed or run into their timeout.    *)
(***************************************************************************)
HomeOutcomes == {"G28", "G28 XY + G28 Z", "G28 X, G28 Y, G28 Z", "failed"}

IniInit ==
  /\ iniPc = "idle"
  /\ iniLeg = 1
  /\ iniLink = "up"
  /\ iniFaults = 0
  /\ iniWire = <<>>
  /\ fwMode = "G90"
  /\ homed = FALSE
  /\ iniRet = "none"
  /\ iniState = "none"

\* send_now(cmd): written when the connection is up
IniSend(cmds) == iniWire' = IF iniLink = "up" THEN iniWire \o cmds ELSE iniWire

IniReturn(ret, state) ==
  /\ iniRet' = ret
  /\ iniState' = state
  /\ iniPc' = "ret"

IniLinkDrop ==
  /\ iniLink = "up" /\ iniFaults < MaxIniFaults
  /\ iniPc \notin {"idle", "ret"}
  /\ iniLink' = "down"
  /\ iniFaults' = iniFaults + 1
  /\ UNCHANGED <<iniPc, iniLeg, iniWire, fwMode, homed, iniRet, iniState>>
  /\ UNCHANGED nonIniVars

IniLinkUp ==
  /\ iniLink = "down"
  /\ iniLink' = "up"
  /\ UNCHANGED <<iniPc, iniLeg, iniFaults, iniWire, fwMode, homed, iniRet, iniState>>
  /\ UNCHANGED nonIniVars

\* go2INIT: if not _ensure_connected(): return False, "Serial not connected"
IniStart ==
  /\ iniPc = "idle"
  /\ iniWire' = <<>>
  /\ homed' = FALSE
  /\ iniLeg' = 1
  /\ IF iniLink = "up"
       THEN iniPc' = "units" /\ iniRet' = "none" /\ iniState' = "none"
       ELSE IniReturn("fail", "NotConnected")
  /\ UNCHANGED <<iniLink, iniFaults, fwMode>>
  /\ UNCHANGED nonIniVars

\* _ensure_units_and_absolute: send_now("G21"), send_now("G90")
IniUnits ==
  /\ iniPc = "units"
  /\ IniSend(<<"G21", "G90">>)
  /\ fwMode' = IF iniLink = "up" THEN "G90" ELSE fwMode
  /\ iniPc' = "home"
  /\ UNCHANGED <<iniLeg, iniLink, iniFaults, homed, iniRet, iniState>>
  /\ UNCHANGED nonIniVars

\* the G28 commands _home_sequence writes up to the pattern that succeeds
HomeCmds(o) ==
  CASE o = "G28" -> <<"G28">>
    [] o = "G28 XY + G28 Z" -> <<"G28", "G28 X Y", "G28 Z">>
    [] OTHER -> <<"G28", "G28 X Y", "G28 X", "G28 Y", "G28 Z">>

\* _home_sequence: the first pattern whose commands are all written and
\* acknowledged before the barrier's timeout; none: return False, why
IniHome(o) ==
  /\ iniPc = "home"
  /\ iniLink = "down" => o = "failed"
  /\ IniSend(HomeCmds(o))
  /\ IF o = "failed"
       THEN /\ IniReturn("fail", "HomingFail")
            /\ UNCHANGED homed
       ELSE /\ homed' = TRUE
            /\ iniPc' = "feed"
            /\ UNCHANGED <<iniRet, iniState>>
  /\ UNCHANGED <<iniLeg, iniLink, iniFaults, fwMode>>
  /\ UNCHANGED nonIniVars

\* feedrate(fast_feed): send_gcode("G0 F..."), result not looked at
IniFeed ==
  /\ iniPc = "feed"
  /\ IniSend(<<"G0 F">>)
  /\ iniPc' = "move"
  /\ UNCHANGED <<iniLeg, iniLink, iniFaults, fwMode, homed, iniRet, iniState>>
  /\ UNCHANGED nonIniVars

\* send_now("G0 X0 Y0 Z10 F...") / send_now("G0 X.. Y.. Z.. F...")
IniMove ==
  /\ iniPc = "move"
  /\ IniSend(<<IF iniLeg = 1 THEN "G0 X0 Y0 Z10" ELSE "G0 centre">>)
  /\ iniPc' = "barrier"
  /\ UNCHANGED <<iniLeg, iniLink, iniFaults, fwMode, homed, iniRet, iniState>>
  /\ UNCHANGED nonIniVars

\* if not wait_for_motion_complete(..): return False, "Timeout while moving ..."
IniBarrier(ok) ==
  /\ iniPc = "barrier"
  /\ iniLink = "down" => ~ok
  /\ IniSend(<<"M400">>)
  /\ IF ok THEN iniPc' = "poll" /\ UNCHANGED <<iniRet, iniState>>
           ELSE IniReturn("fail", "Timeout")
  /\ UNCHANGED <<iniLeg, iniLink, iniFaults, fwMode, homed>>
  /\ UNCHANGED nonIniVars

\* ok, last = _wait_until_xyz(target); not ok: after the first move
\* return False, "Did not reach (0,0,10)...", after the second
\* return True, "Nozzle initialized (center not within tolerance, ...)"
IniPoll(ok) ==
  /\ iniPc = "poll"
  /\ iniLink = "down" => ~ok
  /\ IniSend(<<"M114">>)
  /\ IF iniLeg = 1
       THEN IF ok THEN iniPc' = "move" /\ iniLeg' = 2 /\ UNCHANGED <<iniRet, iniState>>
                  ELSE IniReturn("fail", "OutOfTolerance") /\ UNCHANGED iniLeg
       ELSE /\ IniReturn("ok", IF ok THEN "Centered" ELSE "OutOfTolerance")
            /\ UNCHANGED iniLeg
  /\ UNCHANGED <<iniLink, iniFaults, fwMode, homed>>
  /\ UNCHANGED nonIniVars

\* the caller has the result; the next call may come
IniDone ==
  /\ iniPc = "ret"
  /\ iniPc' = "idle"
  /\ UNCHANGED <<iniLeg, iniLink, iniFaults, iniWire, fwMode, homed, iniRet, iniState>>
  /\ UNCHANGED nonIniVars

IniNext ==
  \/ IniLinkDrop
  \/ IniLinkUp
  \/ IniStart
  \/ IniUnits
  \/ \E o \in HomeOutcomes : IniHome(o)
  \/ IniFeed
  \/ IniMove
  \/ \E ok \in BOOLEAN : IniBarrier(ok)
  \/ \E ok \in BOOLEAN : IniPoll(ok)
  \/ IniDone

(***************************************************************************)
(* ScanPath(start_x, end_x) statement by statement, for the outcome and    *)
(* the moves written per pair of arguments.                                *)
(***************************************************************************)
PathInit ==
  /\ spPc = "idle"
  /\ spX0 = 0
  /\ spX1 = X_MAX
  /\ spGiven = FALSE
  /\ spConn = TRUE
  /\ spWire = <<>>
  /\ spRet = "none"

\* ScanPath: if not _ensure_connected(): return False; units, feedrate,
\* x0 / x1 from the arguments or the defaults 0 and X_MAX
SpCall(start_x, end_x, gs, ge, conn) ==
  /\ spPc = "idle"
  /\ spX0' = IF gs THEN start_x ELSE 0
  /\ spX1' = IF ge THEN end_x ELSE X_MAX
  /\ spGiven' = (gs /\ ge)
  /\ spConn' = conn
  /\ spWire' = <<>>
  /\ spRet' = IF conn THEN "none" ELSE "fail"
  /\ spPc' = IF conn THEN "first" ELSE "ret"
  /\ UNCHANGED nonPathVars

\* send_gcode(f"G0 X{x0:.3f}"), wait_for_motion_complete(10.0)
SpFirst ==
  /\ spPc = "first"
  /\ spWire' = Append(spWire, Clamp("X", spX0))
  /\ spPc' = "second"
  /\ UNCHANGED <<spX0, spX1, spGiven, spConn, spRet>>
  /\ UNCHANGED nonPathVars

\* send_gcode(f"G0 X{x1:.3f}"), wait_for_motion_complete(secs), return True
SpSecond ==
  /\ spPc = "second"
  /\ spWire' = Append(spWire, Clamp("X", spX1))
  /\ spRet' = "ok"
  /\ spPc' = "ret"
  /\ UNCHANGED <<spX0, spX1, spGiven, spConn>>
  /\ UNCHANGED nonPathVars

\* the caller has the result
SpDone ==
  /\ spPc = "ret"
  /\ spPc' = "idle"
  /\ UNCHANGED <<spX0, spX1, spGiven, spConn, spWire, spRet>>
  /\ UNCHANGED nonPathVars

PathNext ==
  \/ \E start_x \in Positions, end_x \in Positions, gs \in BOOLEAN, ge \in BOOLEAN,
        conn \in BOOLEAN : SpCall(start_x, end_x, gs, ge, conn)
  \/ SpFirst
  \/ SpSecond
  \/ SpDone

(***************************************************************************)
(* start_serial: for each of the two workers, look for a live thread of    *)
(* its name in threading.enumerate() and start one if none was found; no   *)
(* lock is held.  The workers run forever once started.                    *)
(***************************************************************************)
Starters == 1..MaxStarters
WorkerNames == <<"serial-queue", "serial-reconnect">>

StartInit ==
  /\ stPc = [c \in Starters |-> "idle"]
  /\ stStage = [c \in Starters |-> 1]
  /\ stSaw = [c \in Starters |-> FALSE]
  /\ alive = [n \in {"serial-queue", "serial-reconnect"} |-> 0]

\* a thread calls start_serial()
StCall(c) ==
  /\ stPc[c] \in {"idle", "done"}
  /\ stPc' = [stPc EXCEPT ![c] = "check"]
  /\ stStage' = [stStage EXCEPT ![c] = 1]
  /\ UNCHANGED <<stSaw, alive>>
  /\ UNCHANGED nonStartVars

\* any(t.name == name and t.is_alive() for t in threading.enumerate())
StCheck(c) ==
  /\ stPc[c] = "check"
  /\ stSaw' = [stSaw EXCEPT ![c] = alive[WorkerNames[stStage[c]]] > 0]
  /\ stPc' = [stPc EXCEPT ![c] = "start"]
  /\ UNCHANGED <<stStage, alive>>
  /\ UNCHANGED nonStartVars

\* if not any(...): threading.Thread(target=..., name=name).start()
StStart(c) ==
  /\ stPc[c] = "start"
  /\ alive' = IF stSaw[c] THEN alive
              ELSE [alive EXCEPT ![WorkerNames[stStage[c]]] = @ + 1]
  /\ IF stStage[c] < Len(WorkerNames)
       THEN /\ stStage' = [stStage EXCEPT ![c] = @ + 1]
            /\ stPc' = [stPc EXCEPT ![c] = "check"]
       ELSE /\ stPc' = [stPc EXCEPT ![c] = "connect"]
            /\ UNCHANGED stStage
  /\ UNCHANGED stSaw
  /\ UNCHANGED nonStartVars

\* sp = serial_port; if not (sp and sp.is_open): connect_serial(); return
StConnect(c) ==
  /\ stPc[c] = "connect"
  /\ stPc' = [stPc EXCEPT ![c] = "done"]
  /\ UNCHANGED <<stStage, stSaw, alive>>
  /\ UNCHANGED nonStartVars

StartNext ==
  \/ \E c \in Starters : StCall(c)
  \/ \E c \in Starters : StCheck(c)
  \/ \E c \in Starters : StStart(c)
  \/ \E c \in Starters : StConnect(c)

(***************************************************************************)
(* The recorder as a process of its own: _launch_recorder starts record.py *)
(* with Popen, so the module globals of app.core.serial_manager (the       *)
(* published handle, the queue, the worker threads) are those of the new   *)
(* process, as the import left them.  One action per stage of record.main  *)
(* up to the first pass of its loop.                                       *)
(***************************************************************************)
ProcInit ==
  /\ rpPc = "off"
  /\ rpPort = None
  /\ rpThreads = {}
  /\ rpPosStr = FALSE
  /\ rpPlan = <<0, 0>>
  /\ rpDevice = TRUE
  /\ rpAsked = 0
  /\ rpX = "unset"

\* serial_manager.send_gcode seen from its caller: no handle published gives
\* the empty list at once; otherwise the lines the pump read, none when the
\* device does not answer or no pump thread runs
GcodeLines(port, threads, device) ==
  IF port = None THEN "empty"
  ELSE IF "serial-queue" \in threads /\ device THEN "lines"
  ELSE "empty"

\* scanner_control.get_position_axis: _parse_m114 finds no "X:" in no lines
PositionAxis(lines) == IF lines = "lines" THEN "value" ELSE "None"

\* main._launch_recorder: Popen(record.py) with REC_POSITION_STR and the plan;
\* the child imports app.core.scanner_control and with it serial_manager
RpLaunch(pos, plan) ==
  /\ rpPc = "off"
  /\ rpPc' = "position"
  /\ rpPosStr' = pos
  /\ rpPlan' = plan
  /\ rpPort' = None
  /\ rpThreads' = {}
  /\ UNCHANGED <<rpDevice, rpAsked, rpX>>
  /\ UNCHANGED nonProcVars

\* record.main: position_line from the environment, else from get_position(),
\* else from get_position_axis of X, Y and Z
RpPosition ==
  /\ rpPc = "position"
  /\ rpAsked' =
       IF rpPosStr THEN rpAsked
       ELSE IF GcodeLines(rpPort, rpThreads, rpDevice) = "lines" THEN rpAsked + 1
       ELSE rpAsked + 4
  /\ rpPc' = "sdk"
  /\ UNCHANGED <<rpPort, rpThreads, rpPosStr, rpPlan, rpDevice, rpX>>
  /\ UNCHANGED nonProcVars

\* record.main: DLL load and initialisation, config.txt
RpSdk(ok) ==
  /\ rpPc = "sdk"
  /\ rpPc' = IF ok THEN "loop" ELSE "exit"
  /\ UNCHANGED <<rpPort, rpThreads, rpPosStr, rpPlan, rpDevice, rpAsked, rpX>>
  /\ UNCHANGED nonProcVars

\* first pass of the loop: x_cur = float(pssc.get_position_axis("X")); None
\* makes float() raise and the loop break with "no position feedback"
RpFirstPoll ==
  /\ rpPc = "loop"
  /\ rpAsked' = rpAsked + 1
  /\ rpX' = PositionAxis(GcodeLines(rpPort, rpThreads, rpDevice))
  /\ rpPc' = IF rpX' = "None" THEN "aborted" ELSE "polling"
  /\ UNCHANGED <<rpPort, rpThreads, rpPosStr, rpPlan, rpDevice>>
  /\ UNCHANGED nonProcVars

\* `if _should_stop(): break` at the head of the first pass: a signal has
\* arrived or the scanning flag no longer reads "1"
RpShouldStop ==
  /\ rpPc = "loop"
  /\ rpPc' = "stopped"
  /\ UNCHANGED <<rpPort, rpThreads, rpPosStr, rpPlan, rpDevice, rpAsked, rpX>>
  /\ UNCHANGED nonProcVars

\* the process ends; the next scan launches a new one
RpExit ==
  /\ rpPc \in {"aborted", "polling", "stopped", "exit"}
  /\ rpPc' = "off"
  /\ rpAsked' = 0
  /\ rpX' = "unset"
  /\ UNCHANGED <<rpPort, rpThreads, rpPosStr, rpPlan, rpDevice>>
  /\ UNCHANGED nonProcVars

\* the controller is unplugged or plugged in
RpDeviceFlip ==
  /\ rpDevice' = ~rpDevice
  /\ UNCHANGED <<rpPc, rpPort, rpThreads, rpPosStr, rpPlan, rpAsked, rpX>>
  /\ UNCHANGED nonProcVars

ProcNext ==
  \/ \E pos \in BOOLEAN, plan \in Plans : RpLaunch(pos, plan)
  \/ RpPosition
  \/ \E ok \in BOOLEAN : RpSdk(ok)
  \/ RpShouldStop
  \/ RpFirstPoll
  \/ RpExit
  \/ RpDeviceFlip

(***************************************************************************)
(* Specifications: each runs one part and parks the others.                *)
(***************************************************************************)
InitParked == SerialInit /\ ModeInit /\ MoveParked /\ RecParked /\ ScanInit /\ RotInit /\ JogInit /\ RegInit /\ PlanInit /\ ShutInit /\ SdkInit /\ IniInit /\ PathInit /\ StartInit /\ ProcInit
InitMove == SerialInit /\ ModeInit /\ MoveInit /\ RecParked /\ ScanInit /\ RotInit /\ JogInit /\ RegInit /\ PlanInit /\ ShutInit /\ SdkInit /\ IniInit /\ PathInit /\ StartInit /\ ProcInit
InitRec == SerialInit /\ ModeInit /\ MoveParked /\ RecInit /\ ScanInit /\ RotInit /\ JogInit /\ RegInit /\ PlanInit /\ ShutInit /\ SdkInit /\ IniInit /\ PathInit /\ StartInit /\ ProcInit

SpecSerial == InitParked /\ [][SerialNext]_vars

SpecMode == InitParked /\ [][ModeNext]_vars

SpecMove == InitMove /\ [][MoveNext]_vars

SpecRec == InitRec /\ [][RecNext]_vars

SpecScan == InitParked /\ [][ScanNext]_vars

SpecRot == InitParked /\ [][RotNext]_vars

SpecJog == InitParked /\ [][JogNext]_vars

SpecReg == InitParked /\ [][RegNext]_vars

SpecUi == InitParked /\ [][UiNext]_vars

SpecMix == InitParked /\ [][MixNext]_vars

SpecPlan == InitParked /\ [][PlanNext]_vars

SpecShut == InitParked /\ [][ShutNext]_vars

SpecSdk == InitParked /\ [][SdkNext]_vars

SpecIni == InitParked /\ [][IniNext]_vars

SpecPath == InitParked /\ [][PathNext]_vars

SpecStart == InitParked /\ [][StartNext]_vars

SpecProc == InitParked /\ [][ProcNext]_vars

\* every started thread keeps running and gets the lock if it is free again and
\* again, the clock advances, a lost port comes back
UiFair ==
  /\ SpecUi
  /\ SF_vars(UiRun)
  /\ SF_vars(UrRun)
  /\ WF_vars(StopG90)
  /\ WF_vars(UrTimeUp)
  /\ WF_vars(ModeReconnect)

InEnvelope(t) == \A a \in DOMAIN t \cap {"X", "Y", "Z"} : 0 <= t[a] /\ t[a] <= AxisMax[a]

\* C8: every absolute X/Y/Z target put on the wire by move_absolute,
\* go_to_scan_start, scan_path, go_to_init, lower-plate and position-for-scan lies
\* in [0, axis_max], for every requested value and every configured offset or
\* pose; an E target is passed through unchanged.
C8_TargetsInEnvelope ==
  /\ \A i \in 1..Len(written) : InEnvelope(written[i])
  /\ \A i \in 1..Len(written) : "E" \in DOMAIN written[i] => written[i]["E"] = moveReq

\* C9: when the recorder stops because the head reached scan_x1, the number of
\* frames it saved differs from ceil((x1 - x0) / e_r_eff) by at most 1, whatever
\* positions the polls returned.
C9_FrameCount ==
  recPc = "reached" =>
    /\ frames_written <= n_samples + 1
    /\ n_samples <= frames_written + 1

\* C10: while a recorder is in its acquisition loop and no stop has been
\* requested, the scanning flag reads 1: no other process writes 0 to it during
\* the loop, in the single-sweep and in the two-sweep flow (no second request
\* running beside the flow).
C10_FlagHeldDuringLoop ==
  \A k \in Sweeps : (rec[k] = "loop" /\ ~stopReq /\ intrPc = "idle") => scanning = 1

(***************************************************************************)
(* Mode discipline: properties                                             *)
(***************************************************************************)
AllExited == \A t \in Threads : pc[t] = "idle"

\* the code regions between a worker's G91 and its restoring G90
RelSection ==
  [t \in Threads |->
     CASE t \in DeltaThreads -> {"d_feed", "d_move", "d_g90"}
       [] t = "ui"           -> {"u_feed", "u_loop", "u_g90"}
       [] t = "uirot"        -> {"ur_feed", "ur_loop", "ur_g90"}
       [] t = "kbd"          -> {"k_loop", "k_g90"}
       [] OTHER              -> {}]

\* the code region of an absolute E move (rotate_nozzle_* from its first command on)
AbsESection == {"r_m302", "r_g21", "r_g90", "r_e"}

InSection(t) == pc[t] \in RelSection[t] \/ (t = "jog" /\ pc[t] \in AbsESection)

\* C1: once every jog, UI continuous worker and keyboard worker has exited, the
\* last positioning-mode command delivered to the firmware is G90, on every exit
\* path, a send_now failure between the G91 and the G90 included.
C1_LastModeIsG90 == AllExited => wireMode = "G90"

\* C2: at most one thread at a time is between its G91 and its restoring G90 or
\* inside an absolute E move (all of them holding one and the same mode lock);
\* stated for runs in which every write so far succeeded, so that every G91 of a
\* thread in its section was delivered.
C2_OneModeSection ==
  (link = "up" /\ mFaults = 0) => Cardinality({t \in Threads : InSection(t)}) <= 1

\* C3: no absolute E move of rotate is written while the most recent
\* positioning-mode command on the wire is G91.
C3_NoAbsEWhileRelative == ~(wireLast = "absE" /\ wireMode = "G91")

(***************************************************************************)
(* Serial manager: properties                                              *)
(***************************************************************************)
Range(seq) == {seq[i] : i \in 1..Len(seq)}

Pos(seq, r) == CHOOSE i \in 1..Len(seq) : seq[i] = r

EnqueuedBefore(a, b) ==
  /\ a \in Range(enqOrder) /\ b \in Range(enqOrder)
  /\ Pos(enqOrder, a) < Pos(enqOrder, b)

\* C4: send_request commands are served first-in first-out: if A was enqueued
\* before B, A is written before B, A's read window has ended before B is
\* written, and A's completer is invoked no later than B's.
C4_Fifo ==
  \A a, b \in Reqs :
    EnqueuedBefore(a, b) =>
      /\ (a \in Range(wrote) /\ b \in Range(wrote)) => Pos(wrote, a) < Pos(wrote, b)
      /\ b \in Range(wrote) => a \notin winOpen
      /\ b \in Range(called) => (a \in Range(called) /\ Pos(called, a) < Pos(called, b))

\* two requests were both written and both completed
C4_Witness == Len(wrote) >= 2 /\ Len(called) >= 2 /\ Len(enqOrder) >= 2

\* a thread is inside write()+flush() / inside a read of the handle
PumpWriting == pumpPc = "flush"
PumpReading == pumpPc = "read"
SendNowWriting == snPc = "flush"
BarrierReading == snPc = "wm_poll"

\* C5: at any instant at most one thread writes to the handle and at most one
\* reads from it: no send_now write and no wait_for_motion_complete read
\* overlaps the pump's write or its read window.
C5_OneWriterOneReader ==
  ~((SendNowWriting \/ BarrierReading) /\ (PumpWriting \/ PumpReading))

\* every command the pump has finished with had its completer invoked exactly once
ExactlyOnce ==
  /\ \A r \in Reqs : cbCount[r] <= 1
  /\ pumpPc = "get" =>
       \A r \in Range(enqOrder) \ Range(command_queue) : cbCount[r] = 1

\* C6: when the pump or send_now hits an I/O error, then after its handler the
\* connected event is clear and no handle is published, the affected completer
\* is invoked with the empty list, and every dequeued command's completer is
\* invoked exactly once.
C6_ErrorDisconnects ==
  [][ /\ (PumpErrClear \/ SnErrClear) => (connected' = FALSE /\ serial_port' = None)
      /\ PumpErrClear => pumpLines' = {}
      /\ ExactlyOnce' ]_vars

Established == IsOpen(serial_port) /\ connected

\* Every thread of the serial manager keeps running; the device is under no
\* obligation to drop or to return.
SerialFair ==
  /\ SpecSerial
  /\ WF_vars(Reconnect)
  /\ WF_vars(Pump)
  /\ WF_vars(Caller)
  /\ WF_vars(Requests)
  /\ WF_vars(DeviceRespond)

\* C7: once the handle has been lost and the device is available again (and for
\* good), the reconnect watcher eventually re-establishes the connection (handle
\* published, connected event set) and it stays established.
C7_Reconnects == (<>[]deviceUp /\ [](nextH <= MaxHandles)) => <>[]Established

\* C11: when a recorder process exits, by whatever path (x1 reached, flag
\* cleared, no position feedback, SDK load or probe initialisation failure,
\* termination signal), the scanning flag reads 0 at its exit.
C11_FlagClearedAtExit ==
  [][\A k \in Sweeps : (rec[k] # "done" /\ rec'[k] = "done") => scanning' = 0]_vars

\* a recorder process that has been spawned and has not left its loop
Running(k) == rec[k] \in {"launched", "init", "loop"}

\* C12: at most one scan is active: a scan request arriving while a scan is in
\* progress starts no second recorder and does not overwrite the scan plan of
\* the running scan.
C12_OneScanActive ==
  ~stopReq =>
    /\ Cardinality({k \in Recorders : Running(k)}) <= 1
    /\ \A k \in Recorders : Running(k) => scanplan = k


\* C13: when a rotate(step, direction) call has returned ok, the persisted E value
\* equals the value persisted before the call plus step (clockwise) or minus step
\* (counterclockwise); when it has returned not-ok the persisted value is unchanged.
C13_PersistedIsPrevPlusStep ==
  rotPc = "ret" =>
    /\ rotRet = "ok" => e_file = rotPrev + rotDir * rotStep
    /\ rotRet = "fail" => e_file = rotPrev

\* the answer of the firmware to the G0 E move of the running call was read
MoveAcked == \E i \in DOMAIN resp : resp[i] = Ack("G0")

\* C14: the persisted E value is written only after the absolute E move of the call
\* was written to the wire and the firmware's answer to that move itself (not the
\* ok of the preceding M302, G21 or G90 write, nor of an earlier call) was received.
C14_PersistedAfterOwnAck ==
  (rotPc = "ret" /\ eWrites > 0) => MoveAcked

\* C15: rotate with step 0 returns ok and performs no write of the persisted E
\* value.
C15_ZeroStepNoWrite ==
  (rotPc = "ret" /\ rotStep = 0) => (rotRet = "ok" /\ eWrites = 0)

\* the jobs run so far are the first arrivals, in arrival order
RunInArrivalOrder(done) == \A i \in DOMAIN done : done[i] = i

\* C16: the jog queue never holds more than 64 jobs; a move_probe request that
\* finds it full is rejected and leaves the queue unchanged; the accepted jobs are
\* run one at a time by the one jog worker, in arrival order.
C16_JogQueue ==
  [][/\ Len(jogq') <= JOG_Q_MAXSIZE
     /\ \A d \in Allowed :
          (move_probe(d) /\ Len(jogq) = JOG_Q_MAXSIZE) =>
             (jogq' = jogq /\ jogArr' = jogArr /\ jogReply' # "queued")
     /\ RunInArrivalOrder(jogDone')
     /\ (jogCur' # 0) => (jogCur' = Len(jogDone') + (IF jogPc' = "run" THEN 1 ELSE 0))
    ]_vars

C16_Witness ==
  /\ Len(jogq) = JOG_Q_MAXSIZE
  /\ jogReply = "full"
  /\ Len(jogDone) >= 2

\* a worker thread that was started and has not yet removed its registry entry
Live(w) == workers[w].st \in {"run", "fin"}

LiveFor(k) == {w \in WorkerIds : Live(w) /\ workers[w].key = k}

\* C17: the registry holds at most one worker per key, also when starts run
\* concurrently: no key ever has two live workers and an entry names the live
\* worker of its key; a start for a key that is present is rejected, starting no
\* thread and writing nothing to the wire.
C17_OneWorkerPerKey ==
  [][/\ \A k \in Keys :
          /\ Cardinality(LiveFor(k))' <= 1
          /\ registry'[k] # 0 => registry'[k] \in LiveFor(k)'
     /\ \A h \in Handlers :
          (hPc[h] = "check" /\ hPc'[h] # "check" /\ registry[hKey[h]] # 0) =>
             /\ hRet'[h] = "rejected"
             /\ nextW' = nextW
             /\ workers' = workers
             /\ registry' = registry
             /\ lastWriter' = lastWriter
    ]_vars

C17_Witness ==
  \E h \in Handlers :
    /\ hRet[h] = "rejected"
    /\ registry[hKey[h]] # 0
    /\ \E g \in Handlers \ {h} : hPc[g] = "check" /\ hKey[g] = hKey[h]

\* the send_now of this step was written to the wire
WroteNow == link = "up" /\ link' = "up"

\* the last mode command the worker has written so far is G91 (ui: G91 written
\* and the loop's G90 not yet sent; uirot: the G90 inside the lock failed)
LastWrittenIsG91(t) ==
  IF t = "ui" THEN (pc[t] = "u_feed" /\ okSetup) \/ pc[t] \in {"u_loop", "u_g90"}
  ELSE pc[t] = "ur_post" /\ ~urG90ok

\* C18: after stop_continuous(action | all) each targeted worker exits, also one
\* that was still waiting for the mode lock; the last mode command it has written
\* when it exits is G90; its registry entry is removed, so that a later
\* continuous_move on its key is accepted.  Checked at the step a stopped worker
\* exits (the exit removes the entry: pc = "idle" lets UiStart / UrStart run).
C18_StoppedWorkerEndsInG90 ==
  [][\A t \in {"ui", "uirot"} :
       (stopFlag[t] /\ pc[t] # "idle" /\ pc'[t] = "idle" /\ LastWrittenIsG91(t)) =>
          (WroteNow /\ wireMode' = "G90")]_vars

\* C19: the E-axis continuous worker terminates once the maximum rotation duration
\* has elapsed, also when no stop is requested (and restores absolute mode at its
\* exit).
C19_RotateWorkerTerminates ==
  (pc["uirot"] # "idle" /\ urElapsed) ~> (pc["uirot"] = "idle")

\* C20: for every start / end / mode input (equal and inverted ranges and a start
\* at Xmax included) the persisted scan plan and the range the recorder resolves
\* satisfy 0 <= x0 < x1 <= Xmax.
C20_PlanRangeOrdered ==
  /\ planPc \in {"persisted", "launched", "resolved"} =>
       (0 <= plan_x0 /\ plan_x0 < plan_x1 /\ plan_x1 <= X_MAX)
  /\ planPc = "resolved" =>
       (0 <= res_x0 /\ res_x0 < res_x1 /\ res_x1 <= X_MAX)

\* what main._parse_scan_query returned for the /scanpath request in progress
Planned == _parse_scan_query(reqStart, reqEnd, reqGiven, reqMode)

\* C21: the plan written to scanplan.json and the SCAN_X0 / SCAN_X1 / SCAN_MODE
\* environment of the recorder carry the (x0, x1, mode) that _parse_scan_query
\* produced: (0, Xmax, long) for the long preset without a range, (15, min(90,
\* Xmax), short) for the short preset without a range, (x0, x1, custom) for an
\* explicit range; the range the recorder resolves is the range ScanPath is
\* called with.
C21_PlanCarriedUnchanged ==
  (planRoute = "scanpath" /\ planPc \in {"launched", "resolved"}) =>
     /\ <<plan_x0, plan_x1, plan_mode>> = Planned
     /\ <<env_x0, env_x1, env_mode>> = Planned
     /\ (reqGiven = "none" /\ reqMode = "long") => Planned = <<0, X_MAX, "long">>
     /\ (reqGiven = "none" /\ reqMode = "short") =>
          Planned = <<SHORT_X0, Min(SHORT_X1, X_MAX), "short">>
     /\ (reqGiven = "both" /\ reqMode = "custom") => Planned[3] = "custom"
     /\ planPc = "resolved" => <<res_x0, res_x1>> = <<plan_x0, plan_x1>>

\* the steps of a complete two-sweep sequence
RECURSIVE SweepSteps(_)
SweepSteps(n) ==
  IF n = 0 THEN <<>>
  ELSE SweepSteps(n - 1) \o <<[op |-> "jogY", n |-> YOffset(n)], [op |-> "sweep", n |-> n],
                              [op |-> "cleared", n |-> n]>>

FullSequence == SweepSteps(MaxSweeps) \o <<[op |-> "merger", n |-> 0]>>

IsPrefix(p, q) == Len(p) <= Len(q) /\ \A i \in 1..Len(p) : p[i] = q[i]

\* C22: _run_multisweep_sequence performs, in this order: relative Y jog of -10,
\* sweep 1, wait until the scanning flag is cleared, relative Y jog of +20,
\* sweep 2, wait until the flag is cleared, spawn the merger; the recorder of
\* sweep 2 is never started while the recorder of sweep 1 is still active; when
\* a wait times out neither the remaining sweep nor the merger is started.
C22_MultisweepOrder ==
  (flow = "multi" /\ ~stopReq) =>
     /\ \/ IsPrefix(trail, FullSequence)
        \/ /\ trail # <<>>
           /\ trail[Len(trail)].op = "timeout"
           /\ mainPc = "done"
           /\ IsPrefix(SubSeq(trail, 1, Len(trail) - 1), FullSequence)
           /\ FullSequence[Len(trail)].op = "cleared"
     /\ \A k \in Sweeps : \A j \in Sweeps : (j < k /\ rec[k] # "none") => ~Running(j)

\* C23: the multisweep flag reads 1 exactly while a two-sweep orchestration is in
\* progress: it is 0 again after _run_multisweep_sequence has returned, whether
\* by success, by a wait timeout or by an error, and 0 in a single scan.
C23_MultisweepFlag ==
  ~stopReq =>
    /\ (flow = "multi" /\ mainPc = "done") => multisweep = 0
    /\ (flow = "multi" /\ sweep >= 1 /\ mainPc # "done" /\ intrPc = "idle") => multisweep = 1
    /\ flow # "multi" => multisweep = 0

\* position of a step in the shutdown log (0: not done)
StepAt(e) == IF \E i \in 1..Len(shLog) : shLog[i] = e
            THEN CHOOSE i \in 1..Len(shLog) : shLog[i] = e ELSE 0

Before(a, b) == StepAt(b) # 0 => (StepAt(a) # 0 /\ StepAt(a) < StepAt(b))

\* C24: the shutdown performs its steps in the order: clear the scanning flag,
\* signal every continuous worker to stop, freeze / stop / close the probe,
\* terminate the child processes (terminate, grace period, kill), release the
\* serial handle, terminate the process; in particular the child processes are
\* terminated before the serial handle is released.
C24_ShutdownOrder ==
  /\ Before("flag", "workers") /\ Before("workers", "probe") /\ Before("probe", "terminate")
  /\ Before("terminate", "kill") /\ Before("kill", "serial") /\ Before("serial", "exit")
  /\ StepAt("probe") # 0 => contWorkers \subseteq signalled
  /\ shSerial = "closed" => \A c \in Children : child[c] \notin {"alive", "terminating"}

\* C25: for any sequence of vendor-call failures and recoveries generate_image
\* never raises to its consumer and goes on yielding frames (real when the probe
\* is initialised, the placeholder otherwise); after a vendor error the session
\* is reset to uninitialised and initialisation is retried.  Checked at every
\* step of a generator in which a vendor call failed: the session is
\* uninitialised after it and the generator is at a place that retries.
C25_VendorErrorResets ==
  [][\A g \in Gens :
       (genPc'[g] # genPc[g] /\ vendorErr'[g]) =>
          (~sdkInit' /\ genPc'[g] \in {"top", "backoff", "errloop"})]_vars

IsMove(c) == c \in {"G0 X0 Y0 Z10", "G0 centre"}

\* C26: go2INIT returns ok only from Centered (homing succeeded, the safe-lift
\* position and the centre position verified within tolerance); from
\* HomingFail, Timeout and OutOfTolerance it returns not-ok; no move command is
\* written before a homing pattern has succeeded; in every terminal state the
\* firmware is in absolute mode.
C26_InitOkOnlyCentered ==
  /\ iniPc = "ret" =>
       /\ iniRet = "ok" => iniState = "Centered"
       /\ iniState \in {"NotConnected", "HomingFail", "Timeout", "OutOfTolerance"} =>
            iniRet = "fail"
       /\ fwMode = "G90"
  /\ (\E i \in 1..Len(iniWire) : IsMove(iniWire[i])) => homed

\* a traverse: two targets written that differ
Swept == Len(spWire) = 2 /\ spWire[1] # spWire[2]

\* C27: ScanPath(x, x) returns ok without performing a sweep; ScanPath(x0, x1)
\* with x1 < x0 is rejected as an invalid argument and writes no move command.
C27_ScanPathDegenerate ==
  (spPc = "ret" /\ spGiven /\ spConn) =>
     /\ spX0 = spX1 => (spRet = "ok" /\ ~Swept)
     /\ spX1 < spX0 => (spRet = "invalid" /\ spWire = <<>>)

\* the step in which wait_for_motion_complete returns True
BarrierReturnsTrue == snOp = "m400" /\ snPc = "wm_poll" /\ snPc' = "idle" /\ snRet'

\* the pump's read window takes a line while the barrier is polling
PumpTakesLine == snPc = "wm_poll" /\ pumpPc = "read" /\ pumpLines' # pumpLines

\* C28: wait_for_motion_complete returns True only if, after it wrote the M400
\* barrier, the firmware's ok acknowledging that barrier was read before the
\* timeout: an ok that answers an earlier command does not count, and the
\* barrier's ok is not lost to a concurrent read window of the request pump.
C28_BarrierOwnAck ==
  [][/\ BarrierReturnsTrue => (rx \ rx') \cap earlier = {}
     /\ PumpTakesLine => NowTag \notin pumpLines']_vars

\* C29: after any number of start_serial() calls, concurrent calls from
\* different threads included, exactly one request-pump thread and exactly one
\* reconnect-watcher thread are running.  Checked whenever a call has returned
\* and no call is in progress.
C29_OneThreadPerWorker ==
  ((\E c \in Starters : stPc[c] = "done") /\ (\A c \in Starters : stPc[c] \in {"idle", "done"})) =>
     (alive["serial-queue"] = 1 /\ alive["serial-reconnect"] = 1)

\* C30: when the recorder has exited, it has started the conversion exactly
\* when its loop ended by reaching scan_x1; after a loop ended by a cleared
\* scanning flag, a termination signal or lost position feedback no
\* conversion was started.
C30_ConvertOnlyOnReached ==
  recExited => (convSpawned <=> recPc = "reached")


\* C31: when the recorder process has ended, on whichever path (scan_x1
\* reached, stop requested, no position feedback, failed probe
\* initialisation), it has sent G90 to the firmware and has called the
\* freeze, stop and close entry points of the probe.
C31_RecorderLeavesClean ==
  recExited => ("G90" \in recWire /\ {"freeze", "stop", "close"} \subseteq probeCalls)


\* C32: no continuous-move worker of the UI holds the mode lock while it waits
\* for its next tick: whenever the X/Y/Z worker or the rotate worker stands at
\* the head of its loop, between two steps, the mode lock is not held by it,
\* so that a jog or rotate job of the jog worker can take the lock there.
C32_NoSleepUnderModeLock ==
  /\ pc["ui"] = "u_loop" => uiLock # "ui"
  /\ pc["uirot"] = "ur_loop" => uiLock # "uirot"


\* C33: _parse_scan_query is idempotent: for the start, end and mode of every
\* request, parsing the (x0, x1, mode) it produced again, as an explicit range
\* with that mode, yields the same (x0, x1, mode).
C33_PlanIdempotent ==
  _parse_scan_query(Planned[1], Planned[2], "both", Planned[3]) = Planned

\* a request whose range was clamped and forced forward, and whose mode was
\* derived from the range
C33_Witness ==
  /\ planPc = "persisted"
  /\ reqGiven = "both"
  /\ reqEnd <= reqStart
  /\ reqStart > X_MAX
  /\ reqMode = "fast"
  /\ Planned = <<X_MAX, X_MAX, "custom">>


\* C34: every relative step (the G1 <axis><delta> of a jog or of a continuous
\* worker) reaches the firmware while it is in relative mode, and every move
\* to an absolute target reaches it while it is in absolute mode, whatever the
\* interleaving of workers, stop requests and positioning operations.
C34_StepsInTheirMode ==
  /\ wireLast = "rel" => wireMode = "G91"
  /\ wireLast \in {"abs", "absE"} => wireMode = "G90"


\* no thread of the serial manager is inside connect_serial, the pump's pass
\* over a command, send_now or wait_for_motion_complete
AtRest == rcPc = "check" /\ pumpPc = "get" /\ snPc = "idle"

\* C35: whenever no operation of the serial manager is in the middle of a
\* step, the connected event is set exactly when a handle is published
\* (serial_port is not None).
C35_EventMatchesHandle ==
  AtRest => (connected <=> serial_port # None)

\* handles the operating system holds open (a handle whose device dropped off
\* the bus stays open until it is closed)
LiveHandles == {h \in Handles : hstate[h] \in {"open", "broken"}}

\* C36: at most one handle to the device is open at any time, and every open
\* handle is the published one or the one connect_serial has just opened and
\* is about to publish: no handle is unpublished or left behind while open.
C36_OneLiveHandle ==
  /\ Cardinality(LiveHandles) <= 1
  /\ \A h \in LiveHandles : h = serial_port \/ (rcPc = "publish" /\ h = rcSer)


\* C37: a command whose send_gcode call has already returned by timeout is not
\* written to the wire afterwards: whenever the pump writes a queued command,
\* the caller of that command is still waiting for it.
C37_NoWriteAfterTimeout ==
  [][Len(wrote') > Len(wrote) => reqPc[wrote'[Len(wrote')]] = "waiting"]_vars


\* C38: in a two-sweep orchestration the merger is spawned only after the
\* conversion of both sweeps has finished: at the step that spawns it, no
\* imconv process of a sweep is still running.
C38_MergerAfterConversions ==
  [][(Len(trail') > Len(trail) /\ trail'[Len(trail')].op = "merger") =>
        \A k \in Sweeps : imconv[k] # "running"]_vars


\* C39: when the recorder process enters its loop it holds a published serial
\* handle and a running request pump, and with the controller answering on
\* the bus the first pass of the loop gets an X position: the loop does not
\* end with "no position feedback" then.
C39_RecorderHasSerial ==
  /\ rpPc = "loop" => (rpPort # None /\ "serial-queue" \in rpThreads)
  /\ (rpPc = "aborted" /\ rpX = "None") => ~rpDevice


\* a step of generator g in which it called into the DLL through the handle it
\* took from the session: return_pixel_values ("grab" to "res") or
\* get_resolution ("res" to "top")
HandleCall(g) ==
  \/ genPc[g] = "grab" /\ genPc'[g] = "res"
  \/ genPc[g] = "res" /\ genPc'[g] = "top"

\* C40: no vendor call that uses the SDK handle runs after the handle was torn
\* down by reset / close: whenever a live stream calls return_pixel_values or
\* get_resolution, the session's library is loaded, no reset having released
\* it since the stream took the handle.
C40_NoCallAfterTeardown ==
  [][\A g \in Gens : HandleCall(g) => dllLoaded]_vars

=============================================================================
